---- MODULE Spec2Model ----
(***************************************************************************)
(* A model of the scrapeURL pipeline (apps/api/src/scraper/scrapeURL):     *)
(* request context construction, robots.txt gating, index (cache) first    *)
(* engine selection with live fallback, specialty (PDF / document)         *)
(* rerouting, the postprocessor chain and the error classification of      *)
(* scrapeURL.  Exceptions are modelled by the name of their class.         *)
(***************************************************************************)
EXTENDS Integers, Sequences, FiniteSets, TLC

\* ------------------------------------------------------------- bounds

\* An input differs from one of the BaseInputs in at most this many fields.
MaxNonDefault == 1

\* The postprocessors list has at most this many entries.
NumPostprocessors == 2

\* ------------------------------------------------------- basic values

Undefined == "undefined"

\* An optional value is a sequence of length 0 (undefined) or 1.
None == <<>>

Some(x) == <<x>>

IsDefined(o) == o # <<>>

Get(o) == o[1]

Engine == {"fire-engine;chrome-cdp", "playwright", "fetch", "index"}

featureFlags ==
  {"actions", "waitFor", "screenshot", "screenshot@fullScreen", "atsv",
   "location", "mobile", "skipTlsVerification", "useFastMode",
   "stealthProxy", "branding", "disableAdblock"}

engineOptions ==
  [e \in Engine |->
    CASE e = "index" ->
           ("actions" :> FALSE @@ "waitFor" :> TRUE @@ "screenshot" :> TRUE
            @@ "screenshot@fullScreen" :> TRUE @@ "atsv" :> FALSE
            @@ "location" :> TRUE @@ "mobile" :> TRUE
            @@ "skipTlsVerification" :> TRUE @@ "useFastMode" :> TRUE
            @@ "stealthProxy" :> FALSE @@ "branding" :> FALSE
            @@ "disableAdblock" :> TRUE)
      [] e = "fire-engine;chrome-cdp" ->
           ("actions" :> TRUE @@ "waitFor" :> TRUE @@ "screenshot" :> TRUE
            @@ "screenshot@fullScreen" :> TRUE @@ "atsv" :> FALSE
            @@ "location" :> TRUE @@ "mobile" :> TRUE
            @@ "skipTlsVerification" :> TRUE @@ "useFastMode" :> FALSE
            @@ "stealthProxy" :> TRUE @@ "branding" :> TRUE
            @@ "disableAdblock" :> FALSE)
      [] e = "playwright" ->
           ("actions" :> FALSE @@ "waitFor" :> TRUE @@ "screenshot" :> FALSE
            @@ "screenshot@fullScreen" :> FALSE @@ "atsv" :> FALSE
            @@ "location" :> FALSE @@ "mobile" :> FALSE
            @@ "skipTlsVerification" :> TRUE @@ "useFastMode" :> FALSE
            @@ "stealthProxy" :> FALSE @@ "branding" :> FALSE
            @@ "disableAdblock" :> FALSE)
      [] OTHER ->
           ("actions" :> FALSE @@ "waitFor" :> FALSE @@ "screenshot" :> FALSE
            @@ "screenshot@fullScreen" :> FALSE @@ "atsv" :> FALSE
            @@ "location" :> FALSE @@ "mobile" :> FALSE
            @@ "skipTlsVerification" :> TRUE @@ "useFastMode" :> TRUE
            @@ "stealthProxy" :> FALSE @@ "branding" :> FALSE
            @@ "disableAdblock" :> FALSE)]

\* ------------------------------------------------------------- inputs

\* One format entry of options.formats.
Format(type, fullPage, viewport, quality) ==
  [type |-> type, fullPage |-> fullPage, viewport |-> viewport,
   quality |-> quality]

\* The inputs of one scrapeURL call and of its deployment: the configuration,
\* the engine-forcing table, the URL, the options and the internal options.
DefaultInput ==
  [useIndex |-> TRUE,
   FIRECRAWL_INDEX_WRITE_ONLY |-> FALSE,
   FIRE_ENGINE_BETA_URL |-> TRUE,
   PLAYWRIGHT_MICROSERVICE_URL |-> FALSE,
   numPostprocessors |-> 1,
   engineMappings |-> [initialized |-> TRUE, entries |-> <<>>],
   domain |-> <<"example", "com">>,
   isRobotsTxtPath |-> FALSE,
   forceEngine |-> Undefined,
   zeroDataRetention |-> FALSE,
   checkRobotsOnScrape |-> FALSE,
   atsv |-> FALSE,
   actions |-> None,
   screenshot |-> None,
   branding |-> FALSE,
   changeTracking |-> FALSE,
   pdfMaxPages |-> None,
   maxAge |-> None,
   headers |-> None,
   proxy |-> Undefined,
   timeout |-> None,
   waitFor |-> 0,
   location |-> FALSE,
   mobile |-> FALSE,
   skipTlsVerification |-> None,
   fastMode |-> FALSE,
   blockAds |-> None,
   externalAbort |-> FALSE,
   specParams |-> None]

InputValues ==
  [useIndex |-> BOOLEAN,
   FIRECRAWL_INDEX_WRITE_ONLY |-> BOOLEAN,
   FIRE_ENGINE_BETA_URL |-> BOOLEAN,
   PLAYWRIGHT_MICROSERVICE_URL |-> BOOLEAN,
   numPostprocessors |-> 1..NumPostprocessors,
   engineMappings |->
     {[initialized |-> FALSE, entries |-> <<>>],
      [initialized |-> TRUE, entries |-> <<>>],
      [initialized |-> TRUE,
       entries |-> <<[pattern |-> <<"EXAMPLE", "com">>,
                      engine |-> "playwright"]>>],
      [initialized |-> TRUE,
       entries |-> <<[pattern |-> <<"other", "org">>, engine |-> "fetch"],
                     [pattern |-> <<"*", "example", "com">>,
                      engine |-> "index"]>>],
      [initialized |-> TRUE,
       entries |-> <<[pattern |-> <<"com">>,
                      engine |-> "fire-engine;chrome-cdp"]>>]},
   domain |-> {<<"example", "com">>, <<"other", "net">>, <<>>},
   isRobotsTxtPath |-> BOOLEAN,
   forceEngine |-> Engine \cup {Undefined},
   zeroDataRetention |-> BOOLEAN,
   checkRobotsOnScrape |-> BOOLEAN,
   atsv |-> BOOLEAN,
   actions |-> {None, Some(<<>>), Some(<<"click">>), Some(<<"screenshot">>),
                Some(<<"click", "pdf">>)},
   screenshot |-> {None,
                   Some(Format("screenshot", FALSE, FALSE, FALSE)),
                   Some(Format("screenshot", TRUE, FALSE, FALSE)),
                   Some(Format("screenshot", FALSE, TRUE, FALSE)),
                   Some(Format("screenshot", FALSE, FALSE, TRUE))},
   branding |-> BOOLEAN,
   changeTracking |-> BOOLEAN,
   pdfMaxPages |-> {None, Some(2)},
   maxAge |-> {None, Some(0), Some(3600000)},
   headers |-> {None, Some({}), Some({"Cookie"})},
   proxy |-> {Undefined, "basic", "stealth"},
   timeout |-> {None, Some(30000)},
   waitFor |-> {0, 1000},
   location |-> BOOLEAN,
   mobile |-> BOOLEAN,
   skipTlsVerification |-> {None, Some(TRUE)},
   fastMode |-> BOOLEAN,
   blockAds |-> {None, Some(FALSE)},
   externalAbort |-> BOOLEAN,
   specParams |-> {None,
                   Some([scrapeOptions |-> [waitFor |-> None],
                         internalOptions |-> [forceEngine |-> None]]),
                   Some([scrapeOptions |-> [waitFor |-> Some(1000)],
                         internalOptions |-> [forceEngine |-> None]]),
                   Some([scrapeOptions |-> [waitFor |-> None],
                         internalOptions |-> [forceEngine |-> Some("fetch")]])}]

\* The fields of an input, in a fixed order.
InputFields ==
  <<"useIndex", "FIRECRAWL_INDEX_WRITE_ONLY", "FIRE_ENGINE_BETA_URL",
    "PLAYWRIGHT_MICROSERVICE_URL", "numPostprocessors", "engineMappings",
    "domain", "isRobotsTxtPath", "forceEngine", "zeroDataRetention",
    "checkRobotsOnScrape", "atsv", "actions", "screenshot", "branding",
    "changeTracking", "pdfMaxPages", "maxAge", "headers", "proxy", "timeout",
    "waitFor", "location", "mobile", "skipTlsVerification", "fastMode",
    "blockAds", "externalAbort", "specParams">>

RECURSIVE Vary(_, _, _)
\* The inputs that differ from r in at most k of the fields from the
\* from-th on.
Vary(r, k, from) ==
  IF k = 0 THEN {r}
  ELSE {r} \cup
       UNION {UNION {Vary([r EXCEPT ![InputFields[i]] = v], k - 1, i + 1) :
                       v \in InputValues[InputFields[i]]
                               \ {r[InputFields[i]]}} :
                i \in from..Len(InputFields)}

\* The deployments and requests the inputs are varied from: the default
\* one, one without fire-engine and one of a zero-data-retention team.
BaseInputs ==
  {DefaultInput,
   [DefaultInput EXCEPT !.FIRE_ENGINE_BETA_URL = FALSE],
   [DefaultInput EXCEPT !.zeroDataRetention = TRUE]}

Inputs == UNION {Vary(base, MaxNonDefault, 1) : base \in BaseInputs}

\* config of the deployment.
ConfigOf(in) ==
  [useIndex |-> in.useIndex,
   FIRECRAWL_INDEX_WRITE_ONLY |-> in.FIRECRAWL_INDEX_WRITE_ONLY,
   FIRE_ENGINE_BETA_URL |-> in.FIRE_ENGINE_BETA_URL,
   PLAYWRIGHT_MICROSERVICE_URL |-> in.PLAYWRIGHT_MICROSERVICE_URL,
   numPostprocessors |-> in.numPostprocessors]

\* The URL: its registrable domain (labels) and whether its path is /robots.txt.
UrlOf(in) == [domain |-> in.domain, isRobotsTxtPath |-> in.isRobotsTxtPath]

\* options (ScrapeOptions) as the caller passes them.
OptionsOf(in) ==
  [actions |-> in.actions,
   formats |-> {Format("markdown", FALSE, FALSE, FALSE)}
               \cup (IF IsDefined(in.screenshot) THEN {Get(in.screenshot)} ELSE {})
               \cup (IF in.branding
                       THEN {Format("branding", FALSE, FALSE, FALSE)} ELSE {})
               \cup (IF in.changeTracking
                       THEN {Format("changeTracking", FALSE, FALSE, FALSE)}
                       ELSE {}),
   pdfMaxPages |-> in.pdfMaxPages,
   maxAge |-> in.maxAge,
   headers |-> in.headers,
   proxy |-> in.proxy,
   timeout |-> in.timeout,
   waitFor |-> in.waitFor,
   location |-> in.location,
   mobile |-> in.mobile,
   skipTlsVerification |-> in.skipTlsVerification,
   fastMode |-> in.fastMode,
   blockAds |-> in.blockAds]

\* internalOptions (InternalOptions) as the caller passes them.
InternalOptionsOf(in) ==
  [forceEngine |-> in.forceEngine,
   atsv |-> in.atsv,
   zeroDataRetention |-> in.zeroDataRetention,
   teamFlags |-> [checkRobotsOnScrape |-> in.checkRobotsOnScrape],
   externalAbort |-> in.externalAbort]

\* ----------------------------------------------------- pure functions

\* hasFormatOfType(formats, type) is truthy.
HasFormatOfType(formats, type) == \E f \in formats : f.type = type

\* The format hasFormatOfType(formats, type) returns when there is one.
FormatOfType(formats, type) == CHOOSE f \in formats : f.type = type

\* getPDFMaxPages(options.parsers).
getPDFMaxPages(opts) == opts.pdfMaxPages

\* A faulty buildFeatureFlags: skipTlsVerification is derived whenever the
\* option is given, whatever its value.
buildFeatureFlags_SkipTlsWhenGiven(opts, iopts) ==
  (IF IsDefined(opts.actions) THEN {"actions"} ELSE {})
  \cup (IF HasFormatOfType(opts.formats, "screenshot")
          THEN IF FormatOfType(opts.formats, "screenshot").fullPage
                 THEN {"screenshot@fullScreen"}
                 ELSE {"screenshot"}
          ELSE {})
  \cup (IF HasFormatOfType(opts.formats, "branding") THEN {"branding"} ELSE {})
  \cup (IF opts.waitFor # 0 THEN {"waitFor"} ELSE {})
  \cup (IF iopts.atsv THEN {"atsv"} ELSE {})
  \cup (IF opts.location THEN {"location"} ELSE {})
  \cup (IF opts.mobile THEN {"mobile"} ELSE {})
  \cup (IF IsDefined(opts.skipTlsVerification)
          THEN {"skipTlsVerification"} ELSE {})
  \cup (IF opts.fastMode THEN {"useFastMode"} ELSE {})
  \cup (IF opts.proxy = "stealth" THEN {"stealthProxy"} ELSE {})
  \cup (IF IsDefined(opts.blockAds) /\ ~Get(opts.blockAds)
          THEN {"disableAdblock"} ELSE {})

buildFeatureFlags(opts, iopts) ==
  (IF IsDefined(opts.actions) THEN {"actions"} ELSE {})
  \cup (IF HasFormatOfType(opts.formats, "screenshot")
          THEN IF FormatOfType(opts.formats, "screenshot").fullPage
                 THEN {"screenshot@fullScreen"}
                 ELSE {"screenshot"}
          ELSE {})
  \cup (IF HasFormatOfType(opts.formats, "branding") THEN {"branding"} ELSE {})
  \cup (IF opts.waitFor # 0 THEN {"waitFor"} ELSE {})
  \cup (IF iopts.atsv THEN {"atsv"} ELSE {})
  \cup (IF opts.location THEN {"location"} ELSE {})
  \cup (IF opts.mobile THEN {"mobile"} ELSE {})
  \cup (IF IsDefined(opts.skipTlsVerification) /\ Get(opts.skipTlsVerification)
          THEN {"skipTlsVerification"} ELSE {})
  \cup (IF opts.fastMode THEN {"useFastMode"} ELSE {})
  \cup (IF opts.proxy = "stealth" THEN {"stealthProxy"} ELSE {})
  \cup (IF IsDefined(opts.blockAds) /\ ~Get(opts.blockAds)
          THEN {"disableAdblock"} ELSE {})

\* A faulty selectLiveEngine: the lightweight backend is tried first.
selectLiveEngine_PlaywrightFirst(cfg) ==
  IF cfg.PLAYWRIGHT_MICROSERVICE_URL THEN "playwright"
  ELSE IF cfg.FIRE_ENGINE_BETA_URL THEN "fire-engine;chrome-cdp"
  ELSE "fetch"

selectLiveEngine(cfg) ==
  IF cfg.FIRE_ENGINE_BETA_URL THEN "fire-engine;chrome-cdp"
  ELSE IF cfg.PLAYWRIGHT_MICROSERVICE_URL THEN "playwright"
  ELSE "fetch"

\* A faulty getUnsupportedFeatures: the supported flags are not taken out
\* of the requested ones.
getUnsupportedFeatures_KeepsSupported(flags, engine) ==
  IF \E flag \in flags : ~engineOptions[engine][flag] THEN flags ELSE {}

getUnsupportedFeatures(flags, engine) ==
  LET supportedFlags ==
        {flag \in DOMAIN engineOptions[engine] :
           engineOptions[engine][flag] /\ flag \in flags}
  IN {flag \in flags : flag \notin supportedFlags}

shouldUseIndex(cfg, opts) ==
  LET hasCustomScreenshotSettings ==
        /\ HasFormatOfType(opts.formats, "screenshot")
        /\ \/ FormatOfType(opts.formats, "screenshot").viewport
           \/ FormatOfType(opts.formats, "screenshot").quality
  IN /\ cfg.useIndex
     /\ cfg.FIRECRAWL_INDEX_WRITE_ONLY # TRUE
     /\ ~HasFormatOfType(opts.formats, "changeTracking")
     /\ ~HasFormatOfType(opts.formats, "branding")
     /\ getPDFMaxPages(opts) = None
     /\ ~hasCustomScreenshotSettings
     /\ opts.maxAge # Some(0)
     /\ (opts.headers = None \/ Cardinality(Get(opts.headers)) = 0)
     /\ (opts.actions = None \/ Len(Get(opts.actions)) = 0)
     /\ opts.proxy # "stealth"

\* String.toLowerCase on one label.
ToLower(label) == IF label = "EXAMPLE" THEN "example" ELSE label

\* s ends with suffix and is longer: domain.endsWith("." + suffix), on labels.
EndsWithDot(s, suffix) ==
  /\ Len(s) > Len(suffix)
  /\ SubSeq(s, Len(s) - Len(suffix) + 1, Len(s)) = suffix

domainMatchesPattern(domain, pattern) ==
  \/ domain = pattern
  \/ IF Len(pattern) > 0 /\ pattern[1] = "*"
       THEN LET basePattern == Tail(pattern)
            IN domain = basePattern \/ EndsWithDot(domain, basePattern)
       ELSE domain = pattern \/ EndsWithDot(domain, pattern)

RECURSIVE FirstMatch(_, _)
\* The engine of the first entry whose pattern the domain matches.
FirstMatch(entries, domain) ==
  IF entries = <<>> THEN Undefined
  ELSE IF domainMatchesPattern(
            domain, [i \in DOMAIN entries[1].pattern |->
                       ToLower(entries[1].pattern[i])])
         THEN entries[1].engine
         ELSE FirstMatch(Tail(entries), domain)

getEngineForUrl(mappings, u) ==
  IF ~mappings.initialized THEN Undefined
  ELSE IF Len(mappings.entries) = 0 THEN Undefined
  ELSE IF u.domain = <<>> THEN Undefined
  ELSE FirstMatch(mappings.entries, u.domain)

\* ------------------------------------------------------------- errors

\* The scrape-tier throwable of the AbortManager: what an
\* AbortManagerThrownError raised for the request's own deadline carries.
AbortInner == "ScrapeJobTimeoutError"

\* The cause an externally supplied cancellation (internalOptions.externalAbort)
\* carries.
ExternalCause == "ExternalAbortCause"

AbortCauses == {AbortInner, ExternalCause}

\* The error kinds scrapeURL's catch names, in the order it tests them.
NamedErrors ==
  {"NoEnginesLeftError", "LLMRefusalError", "SiteError", "SSLError",
   "ActionError", "ActionsNotSupportedError", "HtmlTransformError",
   "MarkdownConversionError", "UnsupportedFileError",
   "PDFInsufficientTimeError", "PDFPrefetchFailed", "DocumentPrefetchFailed",
   "EngineError", "ProxySelectionError", "DNSResolutionError"}

\* errorType of scrapeURL's catch block.
ErrorType(error) ==
  IF error \in NamedErrors THEN error
  ELSE IF error = "AbortManagerThrownError" THEN "AbortManagerThrownError"
  ELSE "unknown"

NoDocument ==
  [present |-> FALSE, cacheState |-> Undefined, postprocessorsUsed |-> <<>>,
   warning |-> {}, payload |-> "none"]

NoResponse ==
  [kind |-> "none", error |-> "none", errorType |-> "none",
   unsupportedFeatures |-> {}]

\* What scrapeURL's catch block makes of an error thrown by scrapeURLSingle:
\* an AbortManagerThrownError is unwrapped and thrown on, every other error
\* is returned as {success: false, error}.
Classify(error, inner) ==
  IF error = "AbortManagerThrownError"
    THEN [kind |-> "thrown", error |-> inner,
          errorType |-> ErrorType(error), unsupportedFeatures |-> {}]
    ELSE [kind |-> "failure", error |-> error,
          errorType |-> ErrorType(error), unsupportedFeatures |-> {}]

\* -------------------------------------------------- external outcomes

\* What the robots.txt check of one URL comes to: the URL is allowed, it is
\* disallowed, or loading the robots document (getCrawl, fetchRobotsTxt,
\* createRobotsChecker) throws.
RobotsOutcomes == {"allowed", "blocked", "fetchFailed"}

\* What scrapeURLWithIndex throws.
IndexErrors ==
  {"IndexMissError", "NoCachedDataError", "SiteError",
   "AbortManagerThrownError"}

\* What a live engine throws.
LiveErrors ==
  {"SiteError", "SSLError", "DNSResolutionError", "ProxySelectionError",
   "ActionError", "EngineError", "Error", "AbortManagerThrownError"}

\* What executeTransformers throws.
TransformerErrors ==
  {"HtmlTransformError", "MarkdownConversionError", "LLMRefusalError",
   "AbortManagerThrownError"}

\* A content type: base is the lower-cased media type, suffix what follows it.
ContentType(base, suffix) == [base |-> base, suffix |-> suffix]

\* An EngineScrapeResult: content type (optional), the leading bytes of html,
\* the leading characters of binaryFile.content ("" when absent), the cache
\* provenance, the postprocessors applied, and the URL fetched, the status
\* code and the proxy tier used.
EngineResult(contentType, body, binary, cacheInfo) ==
  [contentType |-> contentType, body |-> body, binary |-> binary,
   cacheInfo |-> cacheInfo, postprocessorsUsed |-> <<>>, payload |-> "raw",
   url |-> "https://example.com/file", statusCode |-> 200,
   proxyUsed |-> "basic"]

NoEngineResult == EngineResult(None, "", "", FALSE)

\* The result of a successful index read: served from the cache, it carries
\* the cache provenance (created_at).
IndexResult == EngineResult(Some(ContentType("text/html", "")), "<html", "", TRUE)

\* The results a live engine returns.
LiveResults ==
  {EngineResult(Some(ContentType("text/html", "")), "<html", "", FALSE),
   EngineResult(Some(ContentType("application/pdf", "")), "", "", FALSE),
   EngineResult(Some(ContentType("application/pdf", "")), "", "JVBERi0", FALSE),
   EngineResult(Some(ContentType("application/octet-stream", "")), "",
                "UEsD", FALSE),
   EngineResult(Some(ContentType("application/octet-stream", "")), "",
                "JVBERi0", FALSE)}

\* ------------------------------------------------- specialty detection

documentTypes ==
  {"application/vnd.openxmlformats-officedocument.wordprocessingml.document",
   "application/vnd.openxmlformats-officedocument.spreadsheetml.sheet",
   "application/vnd.ms-excel", "application/msword", "application/rtf",
   "text/rtf", "application/vnd.oasis.opendocument.text"}

\* A faulty hasPdfSignature: the base64 form of the signature is not looked
\* for.
hasPdfSignature_RawOnly(body, binaryContent) == body = "%PDF-"

hasPdfSignature(body, binaryContent) ==
  body = "%PDF-" \/ body = "JVBERi0" \/ binaryContent = "JVBERi0"

hasDocumentSignature(body, binaryContent) ==
  body = "PK" \/ body = "UEsD" \/ binaryContent = "UEsD"

\* String.toLowerCase on a media type.
LowerBase(base) ==
  CASE base = "APPLICATION/PDF" -> "application/pdf"
    [] base = "Application/MSWord" -> "application/msword"
    [] OTHER -> base

\* String.toLowerCase on a content type.
toLowerCase(ct) == [ct EXCEPT !.base = LowerBase(@)]

\* What follows the media type starts with ";".
StartsWithSemicolon(suffix) == suffix = ";charset=utf-8"

\* getHeaderContentType(headers, fallback): headers is the value of the
\* content-type entry of the headers, when there is one.
getHeaderContentType(headers, fallback) ==
  IF IsDefined(fallback) THEN fallback ELSE headers

\* What writeFile comes to.
WriteOutcomes == {"written", "failed"}

\* base64ToPrefetch: the descriptor of the temporary file written from the
\* inline payload (writeFile has returned).
base64ToPrefetch(context, contentType) ==
  [status |-> IF IsDefined(context.status) THEN Get(context.status) ELSE 200,
   url |-> context.url,
   file |-> "written",
   proxyUsed |-> IF context.proxyUsed = Undefined THEN "basic"
                 ELSE context.proxyUsed,
   contentType |-> contentType]

NoPlan ==
  [type |-> "none", contentType |-> None, prefetch |-> None, error |-> "none"]

\* A SpecialtyPlan.
Plan(type, contentType, prefetch) ==
  [type |-> type, contentType |-> contentType, prefetch |-> prefetch,
   error |-> "none"]

\* detectSpecialtyPlan: the plan's type ("none" for undefined), its content
\* type and its prefetch descriptor; error is what the call throws ("none":
\* it returns), which is writeFile's error when write is "failed".
detectSpecialtyPlan(input, write) ==
  LET contentType == getHeaderContentType(input.headers, input.contentType)
      normalizedContentType ==
        IF IsDefined(contentType) THEN Some(toLowerCase(Get(contentType)))
        ELSE None
      hasType == IsDefined(normalizedContentType)
      ct == Get(normalizedContentType)
      binaryContent == input.binary
      isDocument == hasType /\ ct.base \in documentTypes
      isPdf == /\ hasType
               /\ ct.base = "application/pdf"
               /\ (ct.suffix = "" \/ StartsWithSemicolon(ct.suffix))
      isOctetStream == /\ hasType
                       /\ ct.base = "application/octet-stream"
                       /\ (ct.suffix = "" \/ StartsWithSemicolon(ct.suffix))
      prefetch == IF binaryContent # ""
                    THEN Some(base64ToPrefetch(input, normalizedContentType))
                    ELSE None
      writeThrows == binaryContent # "" /\ write = "failed"
  IN IF ~hasType /\ input.body = "" /\ binaryContent = "" THEN NoPlan
     ELSE IF isDocument
             \/ (isOctetStream /\ hasDocumentSignature(input.body, binaryContent))
       THEN IF writeThrows THEN [NoPlan EXCEPT !.error = "Error"]
            ELSE Plan("document", normalizedContentType, prefetch)
     ELSE IF isPdf
             \/ (isOctetStream /\ hasPdfSignature(input.body, binaryContent))
       THEN IF writeThrows THEN [NoPlan EXCEPT !.error = "Error"]
            ELSE Plan("pdf", normalizedContentType, prefetch)
     ELSE IF ~hasType /\ hasDocumentSignature(input.body, binaryContent)
       THEN Plan("document", normalizedContentType, None)
     ELSE IF ~hasType /\ hasPdfSignature(input.body, binaryContent)
       THEN Plan("pdf", normalizedContentType, None)
     ELSE NoPlan

\* The input applySpecialtyParsing hands to detectSpecialtyPlan.
SpecialtyInput(result) ==
  [headers |-> None, contentType |-> result.contentType,
   body |-> result.body, binary |-> result.binary, url |-> result.url,
   status |-> Some(result.statusCode), proxyUsed |-> result.proxyUsed]

\* A prefetch slot of meta: undefined, or the descriptor of a temp file with
\* its content type and where the file came from.
NoPrefetch == [state |-> Undefined, contentType |-> None, source |-> "none"]

Prefetch(contentType, source) ==
  [state |-> "file", contentType |-> contentType, source |-> source]

\* The Content-Type header a dedicated download answers with.
DownloadContentTypes ==
  {None, Some(ContentType("application/pdf", "")),
   Some(ContentType("text/html", ""))}

\* What downloadFile throws.
DownloadErrors == {"Error"}

\* What the specialized parsers (scrapePDF past its content-type check,
\* scrapeDocument) throw.
ParserErrors ==
  {"PDFInsufficientTimeError", "DocumentPrefetchFailed", "Error",
   "AbortManagerThrownError"}

\* contentType.includes("application/pdf")
IncludesPdf(ct) == ct.base = "application/pdf"

\* scrapePDF's check of the prefetched file's content type.
PdfPrefetchRejected(prefetch) ==
  IsDefined(prefetch.contentType) /\ ~IncludesPdf(Get(prefetch.contentType))

\* The time scrapePDF allows for a page, in milliseconds.
MILLISECONDS_PER_PAGE == 150

\* Math.min
Min(a, b) == IF a < b THEN a ELSE b

\* A faulty effectivePageCount: maxPages is not looked at.
effectivePageCount_IgnoresMaxPages(numPages, maxPages) == numPages

\* effectivePageCount of scrapePDF: maxPages is optional and, when given, a
\* positive number.
effectivePageCount(numPages, maxPages) ==
  IF IsDefined(maxPages) /\ Get(maxPages) # 0
    THEN Min(numPages, Get(maxPages))
    ELSE numPages

\* scrapePDF from the read of the file to its page-count check: the error
\* thrown ("none": the check passes or parsing is off), and the page count
\* and the required time a PDFInsufficientTimeError is constructed with.
\* scrapeTimeout is meta.abort.scrapeTimeout(), which is optional.
PDFTimeCheck(shouldParse, numPages, maxPages, scrapeTimeout) ==
  LET pageCount == effectivePageCount(numPages, maxPages)
  IN IF ~shouldParse
       THEN [error |-> "none", pageCount |-> 0, requiredTime |-> 0]
     ELSE IF /\ IsDefined(scrapeTimeout)
             /\ pageCount * MILLISECONDS_PER_PAGE > Get(scrapeTimeout)
       THEN [error |-> "PDFInsufficientTimeError", pageCount |-> pageCount,
             requiredTime |-> pageCount * MILLISECONDS_PER_PAGE + 5000]
     ELSE [error |-> "none", pageCount |-> 0, requiredTime |-> 0]

\* -------------------------------------------------------------- state

VARIABLES
  config,             \* the deployment's configuration
  engineMappings,     \* the engine-forcing table (FORCED_ENGINE_DOMAINS)
  url,                \* the URL to scrape
  urlSpecificParams,  \* the entry of urlSpecificParams for the URL's host
  options,            \* the caller's options object
  internalOptions,    \* the caller's internalOptions object
  meta,               \* the Meta object buildMetaObject returns
  abortHandle,        \* the deadline timer: undefined, armed or fired
  externalAbort,      \* the caller's cancellation: undefined, pending or
                      \* aborted
  pc,                 \* where scrapeURL stands
  robots,             \* the robots.txt check's outcome ("none": not made)
  indexOutcome,       \* what the index engine returned ("ok") or threw
  enginesAttempted,   \* selectEngineAndScrape's enginesAttempted
  invoked,            \* the engines scrapeURLWithEngine was called with
  selectLiveEngineCalled, \* whether selectLiveEngine was evaluated
  outcome,            \* selectEngineAndScrape's EngineOutcome (without result)
  specialtyPlan,      \* applySpecialtyParsing's specialtyPlan
  engineResult,       \* scrapeURLSingle's working engineResult
  ppIndex,            \* the postprocessor the chain stands at
  document,           \* the Document assembled
  response,           \* what scrapeURL returned or threw
  stageLog,           \* the stages the pipeline entered, in order
  tempFile,           \* the specialty payload's temporary file: none,
                      \* exists or deleted
  engineFlags,        \* the featureFlags of the _meta the running engine
                      \* was given (empty when no engine runs)
  frequencyOptions,   \* what shouldRecordFrequency reads besides the
                      \* configuration and zeroDataRetention
  frequencyTask,      \* the frequency-recording task: none (not started),
                      \* selecting, inserting, recorded or logged (failed)
  runpod,             \* a call of scrapePDFWithRunPodMU: where it stands,
                      \* the job's last status, the status requests sent
  circuit,            \* the FDB queue client: its circuit breaker, the
                      \* clock and the requests awaiting a response
  fdbQueue,           \* a call of popNextJob: where it stands, the team's
                      \* queue in the service, the jobs popped, pushed
                      \* back and returned
  call                \* a call of a pure function on its own: the
                      \* arguments and, once returned, the result

vars ==
  <<config, engineMappings, url, urlSpecificParams, options, internalOptions,
    meta, abortHandle, externalAbort, pc, robots, indexOutcome,
    enginesAttempted, invoked, selectLiveEngineCalled, outcome, specialtyPlan,
    engineResult, ppIndex, document, response, stageLog, tempFile,
    engineFlags, frequencyOptions, frequencyTask, runpod, circuit, fdbQueue,
    call>>

\* The variables of one scrapeURL execution.
pipelineVars ==
  <<config, engineMappings, url, urlSpecificParams, options, internalOptions,
    meta, abortHandle, externalAbort, pc, robots, indexOutcome,
    enginesAttempted, invoked, selectLiveEngineCalled, outcome, specialtyPlan,
    engineResult, ppIndex, document, response, stageLog, tempFile,
    engineFlags, frequencyOptions, frequencyTask, runpod, circuit,
    fdbQueue>>

\* The variables of one scrapeURL execution that a call of
\* scrapePDFWithRunPodMU on its own leaves alone.
pipelineVarsButRunpod ==
  <<config, engineMappings, url, urlSpecificParams, options, internalOptions,
    meta, abortHandle, externalAbort, pc, robots, indexOutcome,
    enginesAttempted, invoked, selectLiveEngineCalled, outcome, specialtyPlan,
    engineResult, ppIndex, document, response, stageLog, tempFile,
    engineFlags, frequencyOptions, frequencyTask, circuit,
    fdbQueue>>

\* The variables of one scrapeURL execution that the FDB queue client
\* leaves alone.
pipelineVarsButCircuit ==
  <<config, engineMappings, url, urlSpecificParams, options, internalOptions,
    meta, abortHandle, externalAbort, pc, robots, indexOutcome,
    enginesAttempted, invoked, selectLiveEngineCalled, outcome, specialtyPlan,
    engineResult, ppIndex, document, response, stageLog, tempFile,
    engineFlags, frequencyOptions, frequencyTask, runpod,
    fdbQueue>>

\* The variables of one scrapeURL execution that a call of popNextJob
\* leaves alone.
pipelineVarsButFdbQueue ==
  <<config, engineMappings, url, urlSpecificParams, options, internalOptions,
    meta, abortHandle, externalAbort, pc, robots, indexOutcome,
    enginesAttempted, invoked, selectLiveEngineCalled, outcome, specialtyPlan,
    engineResult, ppIndex, document, response, stageLog, tempFile,
    engineFlags, frequencyOptions, frequencyTask, runpod, circuit>>

\* The variables no step of scrapeURL changes.
inputVars ==
  <<config, engineMappings, url, urlSpecificParams, frequencyOptions, runpod,
    circuit, fdbQueue, call>>

NoCall ==
  [fn |-> "none", args |-> [flags |-> {}, engine |-> Undefined],
   result |-> {}, returned |-> FALSE]

NoMeta ==
  [options |-> [actions |-> None, formats |-> {}, pdfMaxPages |-> None,
                maxAge |-> None, headers |-> None, proxy |-> Undefined,
                timeout |-> None, waitFor |-> 0, location |-> FALSE,
                mobile |-> FALSE, skipTlsVerification |-> None,
                fastMode |-> FALSE, blockAds |-> None],
   featureFlags |-> {},
   pdfPrefetch |-> NoPrefetch,
   documentPrefetch |-> NoPrefetch,
   winnerEngine |-> Undefined]

NoOutcome ==
  [engine |-> Undefined, unsupportedFeatures |-> {}, indexAttempted |-> FALSE]

\* scrapeURL is called with the input in.
StartOf(in) ==
  /\ config = ConfigOf(in)
  /\ engineMappings = in.engineMappings
  /\ url = UrlOf(in)
  /\ urlSpecificParams = in.specParams
  /\ options = OptionsOf(in)
  /\ internalOptions = InternalOptionsOf(in)
  /\ meta = NoMeta
  /\ abortHandle = Undefined
  /\ externalAbort = IF in.externalAbort THEN "pending" ELSE Undefined
  /\ pc = "start"
  /\ robots = "none"
  /\ indexOutcome = "none"
  /\ enginesAttempted = <<>>
  /\ invoked = <<>>
  /\ selectLiveEngineCalled = FALSE
  /\ outcome = NoOutcome
  /\ specialtyPlan = NoPlan
  /\ engineResult = NoEngineResult
  /\ ppIndex = 1
  /\ document = NoDocument
  /\ response = NoResponse
  /\ stageLog = <<>>
  /\ tempFile = "none"
  /\ engineFlags = {}
  /\ frequencyTask = "none"

\* options.storeInCache, whether internalOptions.teamId is the pre-crawl
\* team's and internalOptions.isPreCrawl of an ordinary request.
DefaultFrequencyOptions ==
  [storeInCache |-> TRUE, precrawlTeam |-> FALSE, isPreCrawl |-> FALSE]

\* The FDB queue client as the module is loaded: the circuit closed, no
\* failure counted, no request made.
NewCircuit ==
  [configured |-> TRUE, state |-> "closed", openedAt |-> 0, failures |-> 0,
   now |-> 0, inFlight |-> 0, requests |-> 0, ticks |-> 0, openSince |-> 0,
   last |-> "none"]

\* popNextJob not called, the team's queue empty.
NoPop ==
  [pc |-> "idle", fn |-> "none", hasChecker |-> FALSE, queue |-> {},
   now |-> 0, blockedCrawlIds |-> <<>>, sent |-> <<>>, result |-> <<>>,
   outcome |-> "none", returned |-> <<>>, popped |-> {}, pushedBack |-> {},
   rejected |-> {}]

\* scrapePDFWithRunPodMU not called.
NoPoll ==
  [pc |-> "idle", status |-> "none", aborted |-> FALSE, entered |-> FALSE,
   requests |-> 0, exit |-> "none"]

Init ==
  /\ \E in \in Inputs : StartOf(in)
  /\ frequencyOptions = DefaultFrequencyOptions
  /\ runpod = NoPoll
  /\ circuit = NewCircuit
  /\ fdbQueue = NoPop
  /\ call = NoCall

\* signal.aborted of the request's AbortManager.
Aborted == abortHandle = "fired" \/ externalAbort = "aborted"

\* The causes the AbortManager can wrap in an AbortManagerThrownError: the
\* throwable of each abort tier whose signal is aborted.
FiredCauses ==
  (IF abortHandle = "fired" THEN {AbortInner} ELSE {})
    \cup (IF externalAbort = "aborted" THEN {ExternalCause} ELSE {})

\* meta.abort.throwIfAborted(): the error it throws ("none": it returns).
throwIfAborted ==
  IF Aborted THEN "AbortManagerThrownError" ELSE "none"

\* An external call that observes the request's cancellation throws
\* AbortManagerThrownError only once the signal is aborted.
Throwable(errors) ==
  IF Aborted THEN errors ELSE errors \ {"AbortManagerThrownError"}

\* ------------------------------------------------------ buildMetaObject

\* internalOptions after buildMetaObject: the per-domain engine is assigned
\* only when the request forces none.
WithForcedEngine(iopts, forcedEngine) ==
  IF iopts.forceEngine = Undefined /\ forcedEngine # Undefined
    THEN [iopts EXCEPT !.forceEngine = forcedEngine]
    ELSE iopts

\* meta.options: the options with skipTlsVerification defaulted.
MetaOptions(opts) ==
  [opts EXCEPT
     !.skipTlsVerification =
        IF IsDefined(@) THEN @
        ELSE IF \/ (IsDefined(opts.headers) /\ Cardinality(Get(opts.headers)) > 0)
                \/ (IsDefined(opts.actions) /\ Len(Get(opts.actions)) > 0)
               THEN Some(FALSE)
               ELSE Some(TRUE)]

\* Object.assign(options, specParams.scrapeOptions): the caller's options
\* object with the entry's scrape options written over its own.
AssignScrapeOptions(opts, specParams) ==
  IF IsDefined(specParams) /\ IsDefined(Get(specParams).scrapeOptions.waitFor)
    THEN [opts EXCEPT !.waitFor = Get(Get(specParams).scrapeOptions.waitFor)]
    ELSE opts

\* Object.assign(internalOptions, specParams.internalOptions)
AssignInternalOptions(iopts, specParams) ==
  IF /\ IsDefined(specParams)
     /\ IsDefined(Get(specParams).internalOptions.forceEngine)
    THEN [iopts EXCEPT
            !.forceEngine = Get(Get(specParams).internalOptions.forceEngine)]
    ELSE iopts

\* shouldRecordFrequency of scrapeURL.
shouldRecordFrequency(cfg, iopts, fopts) ==
  /\ cfg.useIndex
  /\ fopts.storeInCache
  /\ ~iopts.zeroDataRetention
  /\ ~fopts.precrawlTeam
  /\ ~fopts.isPreCrawl

\* The frequency-recording task as scrapeURL leaves it before it awaits
\* scrapeURLSingle: started, not awaited, and run up to its first await (the
\* select on the index), or not started.
FrequencyTaskStarted(cfg, iopts, fopts) ==
  IF shouldRecordFrequency(cfg, iopts, fopts) THEN "selecting" ELSE "none"

\* buildMetaObject and, when no robots check is asked for, the start of the
\* frequency-recording task.
buildMetaObject ==
  /\ pc = "start"
  /\ LET opts == AssignScrapeOptions(options, urlSpecificParams)
         iopts == WithForcedEngine(
                    AssignInternalOptions(internalOptions, urlSpecificParams),
                    getEngineForUrl(engineMappings, url))
     IN /\ options' = opts
        /\ internalOptions' = iopts
        /\ meta' = [NoMeta EXCEPT
                      !.options = MetaOptions(opts),
                      !.featureFlags = buildFeatureFlags(opts, iopts)]
        /\ abortHandle' = IF IsDefined(opts.timeout) THEN "armed"
                          ELSE Undefined
        /\ pc' = IF iopts.teamFlags.checkRobotsOnScrape THEN "robots"
                 ELSE "single"
        /\ frequencyTask' =
             IF iopts.teamFlags.checkRobotsOnScrape THEN frequencyTask
             ELSE FrequencyTaskStarted(config, iopts, frequencyOptions)
  /\ UNCHANGED <<inputVars, engineFlags, stageLog, tempFile, externalAbort,
                 robots,
                 indexOutcome, enginesAttempted, invoked,
                 selectLiveEngineCalled, outcome, specialtyPlan, engineResult,
                 ppIndex, document, response>>

\* The deadline timer set by buildMetaObject fires: the signal is aborted.
TimerFires ==
  /\ abortHandle = "armed"
  /\ abortHandle' = "fired"
  /\ UNCHANGED <<inputVars, frequencyTask, options, engineFlags, stageLog,
                 tempFile,
                 internalOptions, meta,
                 externalAbort, pc, robots, indexOutcome, enginesAttempted,
                 invoked, selectLiveEngineCalled, outcome, specialtyPlan,
                 engineResult, ppIndex, document, response>>

\* The caller aborts the signal of internalOptions.externalAbort.
ExternalAbortFires ==
  /\ externalAbort = "pending"
  /\ externalAbort' = "aborted"
  /\ UNCHANGED <<inputVars, frequencyTask, options, engineFlags, stageLog,
                 tempFile,
                 internalOptions, meta,
                 abortHandle, pc, robots, indexOutcome, enginesAttempted,
                 invoked, selectLiveEngineCalled, outcome, specialtyPlan,
                 engineResult, ppIndex, document, response>>

\* ------------------------------------------------------- robots check

\* The error the robots check's try block ends with ("none": no error).
RobotsTryError(o) ==
  CASE o = "blocked" -> "CrawlDenialError"
    [] o = "fetchFailed" -> "Error"
    [] OTHER -> "none"

\* A faulty inner catch of the robots check: every error is thrown on.
RobotsCatch_Rethrows(error) == error

\* The inner catch of the robots check: the error it throws on.
RobotsCatch(error) == IF error = "CrawlDenialError" THEN error ELSE "none"

\* The .catch on the robots span: the error it throws on. A denial (its
\* message is "URL blocked by robots.txt") is turned into a value, which the
\* awaiting scrapeURL does not use.
RobotsSpanCatch(error) == IF error = "CrawlDenialError" THEN "none" ELSE error

\* The error that leaves the robots check of scrapeURL.
RobotsError(o) == RobotsSpanCatch(RobotsCatch(RobotsTryError(o)))

\* The robots check of scrapeURL; when it lets the request pass, the
\* frequency-recording task is started.
RobotsCheck ==
  /\ pc = "robots"
  /\ \E o \in (IF url.isRobotsTxtPath THEN {"none"} ELSE RobotsOutcomes) :
       /\ robots' = o
       /\ IF RobotsError(o) # "none"
            THEN /\ pc' = "done"
                 /\ response' = [kind |-> "thrown", error |-> RobotsError(o),
                                 errorType |-> "none",
                                 unsupportedFeatures |-> {}]
                 /\ frequencyTask' = frequencyTask
            ELSE /\ pc' = "single"
                 /\ response' = response
                 /\ frequencyTask' =
                      FrequencyTaskStarted(config, internalOptions,
                                           frequencyOptions)
  /\ UNCHANGED <<inputVars, options, engineFlags, stageLog, tempFile,
                 internalOptions, meta,
                 abortHandle, externalAbort, indexOutcome, enginesAttempted,
                 invoked, selectLiveEngineCalled, outcome, specialtyPlan,
                 engineResult, ppIndex, document>>

\* ---------------------------------------------------- scrapeURLSingle

\* An entry of stageLog: the stage entered, the postprocessor it concerns
\* (0: none) and the postprocessorsUsed a shouldRun was given.
Stage(stage, n, seen) == [stage |-> stage, n |-> n, seen |-> seen]

Entered(stage) == Stage(stage, 0, <<>>)

\* scrapeURL's catch block ends the request with the error classified.
Throw(error) ==
  /\ pc' = "done"
  /\ IF error = "AbortManagerThrownError"
       THEN \E inner \in FiredCauses : response' = Classify(error, inner)
       ELSE response' = Classify(error, "none")

\* A faulty zero-data-retention check: the actions are not looked at.
ZDRViolation_FormatsOnly(m, iopts) ==
  IF ~iopts.zeroDataRetention THEN "none"
  ELSE IF "screenshot" \in m.featureFlags THEN "screenshot"
  ELSE IF "screenshot@fullScreen" \in m.featureFlags
    THEN "screenshot@fullScreen"
  ELSE "none"

\* The zero-data-retention check of scrapeURLSingle: what is violated
\* ("none": nothing).
ZDRViolation(m, iopts) ==
  IF ~iopts.zeroDataRetention THEN "none"
  ELSE IF "screenshot" \in m.featureFlags THEN "screenshot"
  ELSE IF "screenshot@fullScreen" \in m.featureFlags
    THEN "screenshot@fullScreen"
  ELSE IF /\ IsDefined(m.options.actions)
          /\ \E i \in DOMAIN Get(m.options.actions) :
               Get(m.options.actions)[i] = "screenshot"
    THEN "screenshot action"
  ELSE IF /\ IsDefined(m.options.actions)
          /\ \E i \in DOMAIN Get(m.options.actions) :
               Get(m.options.actions)[i] = "pdf"
    THEN "pdf action"
  ELSE "none"

\* A faulty choice of the live engine: the override is not looked at.
LiveEngineChoice_IgnoresForce(forceEngine, cfg) == selectLiveEngine(cfg)

\* forceEngine ?? selectLiveEngine(meta)
LiveEngineChoice(forceEngine, cfg) ==
  IF forceEngine # Undefined THEN forceEngine ELSE selectLiveEngine(cfg)

\* The capability checks before the live engine is invoked: the error they
\* throw ("none": they pass).
PreflightError(flags, unsupportedFeatures) ==
  IF "actions" \in flags /\ "actions" \in unsupportedFeatures
    THEN "ActionsNotSupportedError"
  ELSE IF "branding" \in flags /\ "branding" \in unsupportedFeatures
    THEN "Error"
  ELSE "none"

\* indexEligible of selectEngineAndScrape.
IndexEligible(forceEngine, cfg, opts) ==
  forceEngine = Undefined /\ shouldUseIndex(cfg, opts)

\* A faulty catch around the index attempt: it swallows every error.
IsMissSignal_AnyError(error) == TRUE

\* The catch around the cache-first index attempt: whether the error is
\* swallowed (a miss signal) and the live engine is tried.
IsMissSignal(error) == error \in {"IndexMissError", "NoCachedDataError"}

\* The live path of selectEngineAndScrape up to the engine's invocation.
GoLive ==
  LET forceEngine == internalOptions.forceEngine
      liveEngine == LiveEngineChoice(forceEngine, config)
      unsupportedFeatures == getUnsupportedFeatures(meta.featureFlags, liveEngine)
      error == PreflightError(meta.featureFlags, unsupportedFeatures)
  IN /\ selectLiveEngineCalled' = (forceEngine = Undefined)
     /\ enginesAttempted' = Append(enginesAttempted, liveEngine)
     /\ outcome' = [engine |-> liveEngine,
                    unsupportedFeatures |-> unsupportedFeatures,
                    indexAttempted |->
                      IndexEligible(forceEngine, config, meta.options)]
     /\ IF error # "none"
          THEN /\ Throw(error)
               /\ invoked' = invoked
               /\ stageLog' = stageLog
               /\ engineFlags' = {}
          ELSE /\ pc' = "live"
               /\ invoked' = Append(invoked, liveEngine)
               /\ engineFlags' = meta.featureFlags
               /\ stageLog' = Append(stageLog, Entered("engine"))
               /\ response' = response

\* scrapeURLSingle from its entry to the first engine invocation.
scrapeURLSingle ==
  /\ pc = "single"
  /\ LET violation == ZDRViolation(meta, internalOptions)
         forceEngine == internalOptions.forceEngine
     IN IF violation # "none"
          THEN /\ Throw("ZDRViolationError")
               /\ UNCHANGED <<enginesAttempted, invoked, engineFlags,
                              selectLiveEngineCalled, outcome, stageLog>>
        ELSE IF throwIfAborted # "none"
          THEN /\ Throw(throwIfAborted)
               /\ UNCHANGED <<enginesAttempted, invoked, engineFlags,
                              selectLiveEngineCalled, outcome, stageLog>>
        ELSE IF \/ forceEngine = "index"
                \/ IndexEligible(forceEngine, config, meta.options)
          THEN /\ enginesAttempted' = Append(enginesAttempted, "index")
               /\ invoked' = Append(invoked, "index")
               /\ engineFlags' = meta.featureFlags
               /\ stageLog' = Append(stageLog, Entered("engine"))
               /\ pc' = "index"
               /\ UNCHANGED <<selectLiveEngineCalled, outcome, response>>
        ELSE GoLive
  /\ UNCHANGED <<inputVars, frequencyTask, options, tempFile,
                 internalOptions, meta,
                 abortHandle,
                 externalAbort, robots, indexOutcome, specialtyPlan,
                 engineResult, ppIndex, document>>

\* A faulty scrapeURLSingle: the first engine attempted is recorded as the
\* winner, whichever engine's result is handed on.
EngineStageReturns_FirstAttempted(engine, result) ==
  /\ meta' = [meta EXCEPT !.winnerEngine = invoked[1]]
  /\ engineResult' = result
  /\ ppIndex' = 1
  /\ pc' = "postprocess"
  /\ response' = response

\* selectEngineAndScrape has returned: scrapeURLSingle records the winner
\* and starts the postprocessor chain on the result.
EngineStageReturns(engine, result) ==
  /\ meta' = [meta EXCEPT !.winnerEngine = engine]
  /\ engineResult' = result
  /\ ppIndex' = 1
  /\ pc' = "postprocess"
  /\ response' = response

\* A faulty selectEngineAndScrape: every error of the cache-first attempt is
\* answered with the live engine.
FallsBackToLive_OnEveryError(forceEngine, error) == forceEngine # "index"

\* A faulty selectEngineAndScrape: the forced index attempt shares the
\* cache-first attempt's catch.
FallsBackToLive_ForcedToo(forceEngine, error) == IsMissSignal(error)

\* Whether selectEngineAndScrape answers an error of the index engine with
\* the live engine: only on the cache-first attempt, and only a miss signal.
FallsBackToLive(forceEngine, error) ==
  forceEngine # "index" /\ IsMissSignal(error)

\* scrapeURLWithEngine(meta, "index") returns or throws.
IndexReturns ==
  /\ pc = "index"
  /\ \/ /\ indexOutcome' = "ok"
        /\ outcome' = [engine |-> "index",
                       unsupportedFeatures |->
                         getUnsupportedFeatures(meta.featureFlags, "index"),
                       indexAttempted |-> TRUE]
        /\ EngineStageReturns("index", IndexResult)
        /\ stageLog' = Append(stageLog, Entered("engineReturned"))
        /\ engineFlags' = {}
        /\ UNCHANGED <<enginesAttempted, invoked, selectLiveEngineCalled>>
     \/ \E error \in Throwable(IndexErrors) :
          /\ indexOutcome' = error
          /\ IF FallsBackToLive(internalOptions.forceEngine, error)
               THEN /\ GoLive
                    /\ UNCHANGED <<meta, engineResult, ppIndex>>
               ELSE /\ Throw(error)
                    /\ engineFlags' = {}
                    /\ UNCHANGED <<meta, engineResult, ppIndex,
                                   enginesAttempted, invoked,
                                   selectLiveEngineCalled, outcome, stageLog>>
  /\ UNCHANGED <<inputVars, frequencyTask, options, tempFile,
                 internalOptions, abortHandle,
                 externalAbort, robots, specialtyPlan, document>>

\* A faulty applySpecialtyParsing: the engine's result is handed on whatever
\* the plan.
NextAfterDetection_NoReroute(engine, plan) == "postprocess"

\* A faulty applySpecialtyParsing: a fire-engine result without file payload
\* is downloaded like any other engine's.
NextAfterDetection_NoHardError(engine, plan) ==
  IF plan.error # "none" THEN "throw"
  ELSE IF plan.type = "none" THEN "postprocess"
  ELSE IF IsDefined(plan.prefetch) THEN "parse"
  ELSE "download"

\* Where applySpecialtyParsing goes once detectSpecialtyPlan is through: on
\* with the error it threw, back with the engine's result, to the
\* EngineError of a fire-engine result without file payload, to the parser
\* with the inline prefetch, or to the dedicated download.
NextAfterDetection(engine, plan) ==
  IF plan.error # "none" THEN "throw"
  ELSE IF plan.type = "none" THEN "postprocess"
  ELSE IF engine = "fire-engine;chrome-cdp" /\ ~IsDefined(plan.prefetch)
    THEN "error"
  ELSE IF IsDefined(plan.prefetch) THEN "parse"
  ELSE "download"

\* A faulty applySpecialtyParsing: the descriptor is stored in both slots.
AssignPrefetch_BothSlots(m, type, prefetch) ==
  [m EXCEPT !.pdfPrefetch = prefetch, !.documentPrefetch = prefetch]

\* applySpecialtyParsing stores the descriptor in the slot of the plan's
\* type: meta.pdfPrefetch for a pdf, meta.documentPrefetch for a document.
AssignPrefetch(m, type, prefetch) ==
  IF type = "pdf" THEN [m EXCEPT !.pdfPrefetch = prefetch]
  ELSE [m EXCEPT !.documentPrefetch = prefetch]

\* The live engine returns or throws; on a result applySpecialtyParsing
\* detects the specialty plan.
LiveReturns ==
  /\ pc = "live"
  /\ engineFlags' = {}
  /\ \/ \E result \in LiveResults, write \in WriteOutcomes :
          LET plan == detectSpecialtyPlan(SpecialtyInput(result), write)
              next == NextAfterDetection(outcome.engine, plan)
              log == stageLog \o <<Entered("engineReturned"), Entered("detect")>>
          IN /\ specialtyPlan' = plan
             /\ tempFile' = IF IsDefined(plan.prefetch) THEN "exists"
                            ELSE tempFile
             /\ CASE next = "throw" ->
                       /\ Throw(plan.error)
                       /\ stageLog' = log
                       /\ UNCHANGED <<meta, engineResult, ppIndex>>
                  [] next = "postprocess" ->
                       /\ EngineStageReturns(outcome.engine, result)
                       /\ stageLog' = log
                  [] next = "error" ->
                       /\ Throw("EngineError")
                       /\ stageLog' = log
                       /\ UNCHANGED <<meta, engineResult, ppIndex>>
                  [] next = "parse" ->
                       /\ meta' = AssignPrefetch(
                                    meta, plan.type,
                                    Prefetch(Get(plan.prefetch).contentType,
                                             "inline"))
                       /\ engineResult' = result
                       /\ pc' = "parse"
                       /\ stageLog' = Append(log, Entered("parse"))
                       /\ UNCHANGED <<ppIndex, response>>
                  [] next = "download" ->
                       /\ engineResult' = result
                       /\ pc' = "download"
                       /\ stageLog' = Append(log, Entered("download"))
                       /\ UNCHANGED <<meta, ppIndex, response>>
     \/ \E error \in Throwable(LiveErrors) :
          /\ Throw(error)
          /\ UNCHANGED <<meta, specialtyPlan, engineResult, ppIndex,
                         stageLog, tempFile>>
  /\ UNCHANGED <<inputVars, frequencyTask, options, internalOptions,
                 abortHandle,
                 externalAbort,
                 robots, indexOutcome, enginesAttempted, invoked,
                 selectLiveEngineCalled, outcome, document>>

\* prefetchPdfFile / prefetchDocumentFile: the dedicated download returns or
\* throws.
PrefetchReturns ==
  /\ pc = "download"
  /\ \/ \E header \in DownloadContentTypes :
          LET contentType == IF IsDefined(header) THEN header
                             ELSE specialtyPlan.contentType
          IN /\ meta' = AssignPrefetch(meta, specialtyPlan.type,
                                       Prefetch(contentType, "download"))
             /\ tempFile' = "exists"
             /\ stageLog' = Append(stageLog, Entered("parse"))
             /\ pc' = "parse"
             /\ response' = response
     \/ \E error \in Throwable(DownloadErrors) :
          /\ Throw(error)
          /\ UNCHANGED <<meta, tempFile, stageLog>>
  /\ UNCHANGED <<inputVars, frequencyTask, options, engineFlags,
                 internalOptions,
                 abortHandle, externalAbort,
                 robots, indexOutcome, enginesAttempted, invoked,
                 selectLiveEngineCalled, outcome, specialtyPlan, engineResult,
                 ppIndex, document>>

\* The result applySpecialtyParsing returns from a parser's output.
ParsedResult(prefetch, plan, raw) ==
  [raw EXCEPT
     !.contentType = IF IsDefined(prefetch.contentType)
                       THEN prefetch.contentType
                     ELSE IF IsDefined(plan.contentType) THEN plan.contentType
                     ELSE raw.contentType,
     !.body = "",
     !.binary = "",
     !.cacheInfo = FALSE,
     !.postprocessorsUsed = <<>>,
     !.payload = plan.type]

\* The temporary file once scrapeDocument has returned or thrown.
scrapeDocumentCleanup == "deleted"

\* The temporary file once scrapePDF has returned or thrown: the
\* content-type check throws before the try whose finally unlinks the file.
scrapePDFCleanup(rejected, file) == IF rejected THEN file ELSE "deleted"

\* A faulty scrapePDF: the file is downloaded whatever the prefetch slot
\* holds.
OwnDownload_Always(slot) == TRUE

\* Whether scrapePDF downloads the file itself: only when meta.pdfPrefetch
\* is undefined or null.
OwnDownload(slot) == slot.state \in {Undefined, "null"}

\* scrapePDF / scrapeDocument returns or throws.
ParserReturns ==
  /\ pc = "parse"
  /\ \E header \in DownloadContentTypes :
       LET slot == IF specialtyPlan.type = "pdf" THEN meta.pdfPrefetch
                   ELSE meta.documentPrefetch
           own == specialtyPlan.type = "pdf" /\ OwnDownload(slot)
           prefetch == IF own THEN Prefetch(header, "own") ELSE slot
           file == IF own THEN "exists" ELSE tempFile
           log == IF own THEN Append(stageLog, Entered("ownDownload"))
                  ELSE stageLog
           rejected == specialtyPlan.type = "pdf" /\ PdfPrefetchRejected(prefetch)
       IN /\ tempFile' = IF specialtyPlan.type = "pdf"
                           THEN scrapePDFCleanup(rejected, file)
                           ELSE scrapeDocumentCleanup
          /\ IF rejected
               THEN /\ Throw("PDFPrefetchFailed")
                    /\ stageLog' = log
                    /\ UNCHANGED <<meta, engineResult, ppIndex>>
               ELSE \/ /\ EngineStageReturns(
                             outcome.engine,
                             ParsedResult(prefetch, specialtyPlan, engineResult))
                       /\ stageLog' = Append(log, Entered("parsed"))
                    \/ \E error \in Throwable(ParserErrors) :
                         /\ Throw(error)
                         /\ stageLog' = log
                         /\ UNCHANGED <<meta, engineResult, ppIndex>>
  /\ UNCHANGED <<inputVars, frequencyTask, options, engineFlags,
                 internalOptions,
                 abortHandle, externalAbort,
                 robots, indexOutcome, enginesAttempted, invoked,
                 selectLiveEngineCalled, outcome, specialtyPlan, document>>

\* ------------------------------------------------- postprocessor chain

\* The names of the postprocessors list, in order.
postprocessors == [i \in 1..config.numPostprocessors |-> i]

\* A faulty loop: shouldRun is given the postprocessorsUsed of the engine's
\* result, not of the working result.
ShouldRunInput_EngineResult(result) == <<>>

\* The postprocessorsUsed that shouldRun is given: the working result's.
ShouldRunInput(result) == result.postprocessorsUsed

\* postprocessor.shouldRun is evaluated for the postprocessor the chain
\* stands at; when it holds the postprocessor's run is called.
PostprocessorShouldRun ==
  /\ pc = "postprocess"
  /\ ppIndex <= Len(postprocessors)
  /\ \E shouldRun \in BOOLEAN :
       LET evaluated == Stage("shouldRun", ppIndex, ShouldRunInput(engineResult))
       IN IF shouldRun
            THEN /\ pc' = "postprocessorRun"
                 /\ ppIndex' = ppIndex
                 /\ stageLog' = stageLog \o <<evaluated,
                                              Stage("run", ppIndex, <<>>)>>
            ELSE /\ pc' = pc
                 /\ ppIndex' = ppIndex + 1
                 /\ stageLog' = Append(stageLog, evaluated)
  /\ UNCHANGED <<inputVars, frequencyTask, options, engineFlags, tempFile,
                 internalOptions,
                 meta, abortHandle,
                 externalAbort, robots, indexOutcome, enginesAttempted,
                 invoked, selectLiveEngineCalled, outcome, specialtyPlan,
                 engineResult, document, response>>

\* The result a postprocessor's run returns.
PostprocessedResult(result, name) ==
  [result EXCEPT !.postprocessorsUsed = Append(@, name),
                 !.payload = "postprocessed"]

\* The errors a postprocessor's run throws.
PostprocessorErrors == {"Error", "AbortManagerThrownError"}

\* A faulty catch around postprocessor.run: the error is thrown on.
PostprocessorCatch_Rethrows(error) == error

\* The catch around postprocessor.run: the error it throws on ("none": the
\* error is logged only).
PostprocessorCatch(error) == "none"

\* postprocessor.run returns its result, or throws and the working result
\* is kept.
PostprocessorRunReturns ==
  /\ pc = "postprocessorRun"
  /\ \/ /\ engineResult' =
             PostprocessedResult(engineResult, postprocessors[ppIndex])
        /\ stageLog' = Append(stageLog, Stage("runReturned", ppIndex, <<>>))
        /\ ppIndex' = ppIndex + 1
        /\ pc' = "postprocess"
        /\ response' = response
     \/ \E error \in Throwable(PostprocessorErrors) :
          IF PostprocessorCatch(error) # "none"
            THEN /\ Throw(PostprocessorCatch(error))
                 /\ UNCHANGED <<engineResult, ppIndex, stageLog>>
            ELSE /\ engineResult' = engineResult
                 /\ stageLog' = Append(stageLog,
                                       Stage("runThrew", ppIndex, <<>>))
                 /\ ppIndex' = ppIndex + 1
                 /\ pc' = "postprocess"
                 /\ response' = response
  /\ UNCHANGED <<inputVars, frequencyTask, options, engineFlags, tempFile,
                 internalOptions,
                 meta, abortHandle,
                 externalAbort, robots, indexOutcome, enginesAttempted,
                 invoked, selectLiveEngineCalled, outcome, specialtyPlan,
                 document>>

\* ----------------------------------------------- document and result

\* A faulty cacheMetadata: indexAttempted is not looked at.
CacheState_IgnoresAttempt(indexAttempted, engine, result) ==
  IF engine = "index" /\ result.cacheInfo THEN "hit" ELSE "miss"

\* A faulty cacheMetadata: the test of the engine is inverted.
CacheState_EngineTestInverted(indexAttempted, engine, result) ==
  IF indexAttempted
    THEN IF engine # "index" /\ result.cacheInfo THEN "hit" ELSE "miss"
    ELSE Undefined

\* cacheMetadata of scrapeURLSingle: metadata.cacheState ("undefined": absent).
CacheState(indexAttempted, engine, result) ==
  IF indexAttempted
    THEN IF engine = "index" /\ result.cacheInfo THEN "hit" ELSE "miss"
    ELSE Undefined

\* The chain is through: the Document is assembled and handed to
\* executeTransformers.
AssembleDocument ==
  /\ pc = "postprocess"
  /\ ppIndex > Len(postprocessors)
  /\ document' = [present |-> TRUE,
                  cacheState |-> CacheState(outcome.indexAttempted,
                                            outcome.engine, engineResult),
                  postprocessorsUsed |-> engineResult.postprocessorsUsed,
                  warning |-> outcome.unsupportedFeatures,
                  payload |-> engineResult.payload]
  /\ pc' = "transformers"
  /\ stageLog' = Append(stageLog, Entered("transformers"))
  /\ UNCHANGED <<inputVars, frequencyTask, options, engineFlags, tempFile,
                 internalOptions,
                 meta, abortHandle,
                 externalAbort, robots, indexOutcome, enginesAttempted,
                 invoked, selectLiveEngineCalled, outcome, specialtyPlan,
                 engineResult, ppIndex, response>>

\* executeTransformers returns the document, or throws.
TransformersReturn ==
  /\ pc = "transformers"
  /\ \/ /\ pc' = "done"
        /\ response' = [kind |-> "success", error |-> "none",
                        errorType |-> "none",
                        unsupportedFeatures |-> outcome.unsupportedFeatures]
     \/ \E error \in Throwable(TransformerErrors) : Throw(error)
  /\ UNCHANGED <<inputVars, frequencyTask, options, engineFlags, stageLog,
                 tempFile,
                 internalOptions, meta,
                 abortHandle, externalAbort, robots, indexOutcome,
                 enginesAttempted, invoked, selectLiveEngineCalled, outcome,
                 specialtyPlan, engineResult, ppIndex, document>>

\* The flags an engine handler may add to the flag set it was given.
EngineMutations == {"mobile"}

\* A running engine handler changes _meta.featureFlags, the set
\* scrapeURLWithEngine built for it with new Set(meta.featureFlags); the set
\* of meta is another object and keeps its members.
EngineMutatesFlags ==
  /\ pc \in {"index", "live"}
  /\ \E flag \in EngineMutations :
       /\ flag \notin engineFlags
       /\ engineFlags' = engineFlags \cup {flag}
  /\ UNCHANGED <<inputVars, frequencyTask, options, internalOptions, meta,
                 abortHandle,
                 externalAbort, pc, robots, indexOutcome, enginesAttempted,
                 invoked, selectLiveEngineCalled, outcome, specialtyPlan,
                 engineResult, ppIndex, document, response, stageLog,
                 tempFile>>

Next ==
  \/ buildMetaObject
  \/ TimerFires
  \/ ExternalAbortFires
  \/ RobotsCheck
  \/ scrapeURLSingle
  \/ IndexReturns
  \/ LiveReturns
  \/ EngineMutatesFlags
  \/ PrefetchReturns
  \/ ParserReturns
  \/ PostprocessorShouldRun
  \/ PostprocessorRunReturns
  \/ AssembleDocument
  \/ TransformersReturn

Spec == Init /\ [][Next]_vars

\* ------------------------------------- the frequency-recording task

\* What scrapeURL's awaited path reads and writes.
scrapeVars ==
  <<config, engineMappings, url, urlSpecificParams, options, internalOptions,
    meta, abortHandle, externalAbort, pc, robots, indexOutcome,
    enginesAttempted, invoked, selectLiveEngineCalled, outcome, specialtyPlan,
    engineResult, ppIndex, document, response, stageLog, tempFile,
    engineFlags, frequencyOptions, runpod, circuit, fdbQueue, call>>

\* What the task's awaits (the select on the index, addIndexRFInsertJob)
\* or the code between them may throw.
FrequencyErrors == {"Error"}

\* A faulty task: its catch throws the error on.
FrequencyCatch_Rethrows(error) == error

\* The catch of the task: the error is logged and none is thrown on.
FrequencyCatch(error) == "none"

\* The select on the index returns rows or an error value; the error value
\* is logged and the task goes on to addIndexRFInsertJob.
FrequencySelectReturns ==
  /\ frequencyTask = "selecting"
  /\ frequencyTask' = "inserting"
  /\ UNCHANGED scrapeVars

\* addIndexRFInsertJob returns.
FrequencyInsertReturns ==
  /\ frequencyTask = "inserting"
  /\ frequencyTask' = "recorded"
  /\ UNCHANGED scrapeVars

\* An await of the task throws. An error the catch threw on would reject a
\* promise nobody handles, which ends the process and the request with it.
FrequencyTaskThrows ==
  /\ frequencyTask \in {"selecting", "inserting"}
  /\ frequencyTask' = "logged"
  /\ \E error \in FrequencyErrors :
       IF FrequencyCatch(error) = "none"
         THEN UNCHANGED scrapeVars
         ELSE /\ pc' = "done"
              /\ response' = [kind |-> "thrown",
                              error |-> FrequencyCatch(error),
                              errorType |-> "none",
                              unsupportedFeatures |-> {}]
              /\ UNCHANGED <<config, engineMappings, url, urlSpecificParams,
                             options, internalOptions, meta, abortHandle,
                             externalAbort, robots, indexOutcome,
                             enginesAttempted, invoked,
                             selectLiveEngineCalled, outcome, specialtyPlan,
                             engineResult, ppIndex, document, stageLog,
                             tempFile, engineFlags, frequencyOptions,
                             runpod, circuit, fdbQueue, call>>

\* The requests the task is interleaved with: the three deployments, a
\* request with a deadline, one the caller may cancel and a deployment
\* without index.
FrequencyInputs ==
  BaseInputs
    \cup {[DefaultInput EXCEPT !.timeout = t] :
            t \in InputValues.timeout \ {None}}
    \cup {[DefaultInput EXCEPT !.externalAbort = TRUE],
          [DefaultInput EXCEPT !.checkRobotsOnScrape = TRUE],
          [DefaultInput EXCEPT !.useIndex = FALSE]}

FrequencyOptionValues ==
  [storeInCache : BOOLEAN, precrawlTeam : BOOLEAN, isPreCrawl : BOOLEAN]

FrequencyInit ==
  /\ \E in \in FrequencyInputs : StartOf(in)
  /\ frequencyOptions \in FrequencyOptionValues
  /\ runpod = NoPoll
  /\ circuit = NewCircuit
  /\ fdbQueue = NoPop
  /\ call = NoCall

\* scrapeURL with the task scheduled at every point: Spec is the same
\* pipeline with the task, once started, never scheduled.
FrequencyNext ==
  \/ Next
  \/ FrequencySelectReturns
  \/ FrequencyInsertReturns
  \/ FrequencyTaskThrows

FrequencySpec == FrequencyInit /\ [][FrequencyNext]_vars

\* ------------------------- the PDF parser's remote polling loop

\* The status requests one call is followed through.
MaxPolls == 5

\* The job statuses the service answers with.
PodStatuses == {"IN_QUEUE", "IN_PROGRESS", "COMPLETED", "FAILED", "CANCELLED"}

\* The statuses for which scrapePDFWithRunPodMU enters the loop.
PodPending == {"IN_QUEUE", "IN_PROGRESS"}

\* The condition of the do-while: whether the loop goes round again.
PollAgain(status) == status \notin {"COMPLETED", "FAILED"}

\* meta.abort.throwIfAborted() before the wait throws.
CheckBeforeWait(aborted) == aborted

\* A faulty loop: no check between the wait and the status request.
CheckAfterWait_Missing(aborted) == FALSE

\* meta.abort.throwIfAborted() after the wait throws.
CheckAfterWait(aborted) == aborted

\* scrapePDFWithRunPodMU is left.
PollLeft(r, exit) == [r EXCEPT !.pc = "left", !.exit = exit]

\* The head of an iteration: the check, then the 2.5 s wait begins.
PollIteration(r) ==
  IF CheckBeforeWait(r.aborted) THEN PollLeft(r, "aborted")
  ELSE [r EXCEPT !.pc = "waiting", !.entered = TRUE]

\* The runsync request returns the job's status or throws.
RunsyncReturns ==
  /\ runpod.pc = "runsync"
  /\ \/ \E s \in PodStatuses :
          LET r == [runpod EXCEPT !.status = s]
          IN runpod' = IF s \in PodPending THEN PollIteration(r)
                       ELSE PollLeft(r, s)
     \/ runpod' = PollLeft(runpod, "error")
  /\ UNCHANGED <<pipelineVarsButRunpod, call>>

\* The 2.5 s wait is over: the check, then the status request is sent.
WaitEnds ==
  /\ runpod.pc = "waiting"
  /\ runpod' = IF CheckAfterWait(runpod.aborted)
                 THEN PollLeft(runpod, "aborted")
                 ELSE [runpod EXCEPT !.pc = "status",
                                     !.requests = @ + 1]
  /\ UNCHANGED <<pipelineVarsButRunpod, call>>

\* The status request returns the job's status or throws. The last request
\* followed is answered with a final status.
StatusReturns ==
  /\ runpod.pc = "status"
  /\ \/ \E s \in PodStatuses :
          /\ PollAgain(s) => runpod.requests < MaxPolls
          /\ LET r == [runpod EXCEPT !.status = s]
             IN runpod' = IF PollAgain(s) THEN PollIteration(r)
                          ELSE PollLeft(r, s)
     \/ runpod' = PollLeft(runpod, "error")
  /\ UNCHANGED <<pipelineVarsButRunpod, call>>

\* The request's cancellation fires while scrapePDFWithRunPodMU awaits a
\* request or the wait.
PollAbortFires ==
  /\ runpod.pc \in {"runsync", "waiting", "status"}
  /\ ~runpod.aborted
  /\ runpod' = [runpod EXCEPT !.aborted = TRUE]
  /\ UNCHANGED <<pipelineVarsButRunpod, call>>

\* scrapePDFWithRunPodMU has sent the runsync request.
PollInit ==
  /\ StartOf(DefaultInput)
  /\ frequencyOptions = DefaultFrequencyOptions
  /\ runpod = [NoPoll EXCEPT !.pc = "runsync"]
  /\ circuit = NewCircuit
  /\ fdbQueue = NoPop
  /\ call = NoCall

PollNext ==
  \/ RunsyncReturns
  \/ WaitEnds
  \/ StatusReturns
  \/ PollAbortFires

PollSpec == PollInit /\ [][PollNext]_vars

\* ------------------------- the FDB queue client's circuit breaker

CIRCUIT_OPEN_DURATION_MS == 5000

CIRCUIT_FAILURE_THRESHOLD == 3

\* The calls of httpRequest followed, the most that await a response at a
\* time, and the times the clock is seen to advance.
MaxRequests == 6

MaxInFlight == 2

MaxTicks == 4

\* The milliseconds Date.now() advances by between two steps.
TickSteps == {1, 4999}

\* checkCircuit throws FDBCircuitOpenError.
CircuitRejects(c) ==
  /\ c.state = "open"
  /\ ~(c.now - c.openedAt >= CIRCUIT_OPEN_DURATION_MS)

\* The circuit after a checkCircuit that did not throw.
checkCircuit(c) ==
  IF c.state = "open" /\ c.now - c.openedAt >= CIRCUIT_OPEN_DURATION_MS
    THEN [c EXCEPT !.state = "half-open"]
    ELSE c

\* A faulty recordSuccess: a success closes the open circuit too.
recordSuccess_ClosesWhenOpen(c) ==
  IF c.state \in {"half-open", "open"}
    THEN [c EXCEPT !.state = "closed", !.failures = 0]
  ELSE IF c.state = "closed" THEN [c EXCEPT !.failures = 0]
  ELSE c

\* A faulty recordSuccess: the closed circuit keeps its count.
recordSuccess_KeepsCount(c) ==
  IF c.state = "half-open" THEN [c EXCEPT !.state = "closed", !.failures = 0]
  ELSE c

recordSuccess(c) ==
  IF c.state = "half-open" THEN [c EXCEPT !.state = "closed", !.failures = 0]
  ELSE IF c.state = "closed" THEN [c EXCEPT !.failures = 0]
  ELSE c

\* The circuit set to open now; openSince keeps the time it left another
\* state for open.
Opened(c) ==
  [c EXCEPT !.state = "open", !.openedAt = c.now,
            !.openSince = IF c.state = "open" THEN @ ELSE c.now]

\* A faulty recordFailure: the threshold itself does not open the circuit.
recordFailure_AboveThreshold(c) ==
  LET counted == [c EXCEPT !.failures = @ + 1]
  IN IF counted.state = "half-open" THEN Opened(counted)
     ELSE IF counted.failures > CIRCUIT_FAILURE_THRESHOLD
       THEN Opened(counted)
     ELSE counted

recordFailure(c) ==
  LET counted == [c EXCEPT !.failures = @ + 1]
  IN IF counted.state = "half-open" THEN Opened(counted)
     ELSE IF counted.failures >= CIRCUIT_FAILURE_THRESHOLD
       THEN Opened(counted)
     ELSE counted

\* httpRequest is called: checkCircuit, getBaseUrl, then the fetch is sent.
HttpRequestCalled ==
  /\ circuit.requests < MaxRequests
  /\ circuit.inFlight < MaxInFlight
  /\ LET c == [circuit EXCEPT !.requests = @ + 1]
     IN circuit' =
          IF CircuitRejects(c) THEN [c EXCEPT !.last = "rejected"]
          ELSE IF ~c.configured
            THEN [checkCircuit(c) EXCEPT !.last = "unconfigured"]
          ELSE [checkCircuit(c) EXCEPT !.inFlight = @ + 1, !.last = "sent"]
  /\ UNCHANGED <<pipelineVarsButCircuit, call>>

\* A request's response is read as a success.
ResponseSucceeds ==
  /\ circuit.inFlight > 0
  /\ circuit' = [recordSuccess(circuit) EXCEPT !.inFlight = @ - 1,
                                               !.last = "success"]
  /\ UNCHANGED <<pipelineVarsButCircuit, call>>

\* The fetch rejects, the response is not ok or its body is no JSON.
ResponseFails ==
  /\ circuit.inFlight > 0
  /\ circuit' = [recordFailure(circuit) EXCEPT !.inFlight = @ - 1,
                                               !.last = "failure"]
  /\ UNCHANGED <<pipelineVarsButCircuit, call>>

\* Time passes.
ClockAdvances ==
  /\ circuit.ticks < MaxTicks
  /\ \E d \in TickSteps :
       circuit' = [circuit EXCEPT !.now = @ + d, !.ticks = @ + 1,
                                  !.last = "tick"]
  /\ UNCHANGED <<pipelineVarsButCircuit, call>>

\* The module is loaded, with or without FDB_QUEUE_SERVICE_URL.
CircuitInit ==
  /\ StartOf(DefaultInput)
  /\ frequencyOptions = DefaultFrequencyOptions
  /\ runpod = NoPoll
  /\ \E configured \in BOOLEAN :
       circuit = [NewCircuit EXCEPT !.configured = configured]
  /\ fdbQueue = NoPop
  /\ call = NoCall

CircuitNext ==
  \/ HttpRequestCalled
  \/ ResponseSucceeds
  \/ ResponseFails
  \/ ClockAdvances

CircuitSpec == CircuitInit /\ [][CircuitNext]_vars

\* ------------------------------------ popNextJob of the FDB queue client

\* The clock stops here.
MaxClock == 2

\* The jobs the team's queue can hold: two of crawl "a", one of crawl "b"
\* and one of no crawl, with and without a deadline and a listen channel.
QueueJobs ==
  {[id |-> "j1", data |-> "d1", priority |-> 10, listenable |-> TRUE,
    listenChannelId |-> Some("ch1"), crawlId |-> Some("a"),
    timesOutAt |-> Some(60), teamId |-> "team"],
   [id |-> "j2", data |-> "d2", priority |-> 20, listenable |-> FALSE,
    listenChannelId |-> None, crawlId |-> Some("a"),
    timesOutAt |-> None, teamId |-> "team"],
   [id |-> "j3", data |-> "d3", priority |-> 10, listenable |-> FALSE,
    listenChannelId |-> None, crawlId |-> Some("b"),
    timesOutAt |-> Some(90), teamId |-> "team"],
   [id |-> "j4", data |-> "d4", priority |-> 30, listenable |-> TRUE,
    listenChannelId |-> Some("ch4"), crawlId |-> None,
    timesOutAt |-> None, teamId |-> "team"]}

\* The elements of an array.
Elements(array) == {array[i] : i \in 1..Len(array)}

\* The jobs the service may answer a pop with: the queue service is a
\* separate program; the request names the crawls whose jobs it is not to
\* hand out.
Eligible(queue, blockedCrawlIds) ==
  {job \in queue : \/ ~IsDefined(job.crawlId)
                   \/ Get(job.crawlId) \notin Elements(blockedCrawlIds)}

\* The timeout argument of the push-back: result.timesOutAt - Date.now(),
\* or Infinity, which JSON.stringify writes as null.
RemainingTimeout(result, now) ==
  IF IsDefined(result.timesOutAt)
    THEN Some(Get(result.timesOutAt) - now)
    ELSE None

\* The body pushJob posts to /queue/push.
pushJob(teamId, job, timeout, crawlId) ==
  [teamId |-> teamId,
   job |-> [id |-> job.id, data |-> job.data, priority |-> job.priority,
            listenable |-> job.listenable,
            listenChannelId |-> job.listenChannelId],
   timeout |-> timeout,
   crawlId |-> crawlId]

\* The job the service stores for a push it receives at the time now.
Stored(body, now) ==
  [id |-> body.job.id, data |-> body.job.data,
   priority |-> body.job.priority, listenable |-> body.job.listenable,
   listenChannelId |-> body.job.listenChannelId, crawlId |-> body.crawlId,
   timesOutAt |-> IF IsDefined(body.timeout)
                    THEN Some(now + Get(body.timeout))
                    ELSE None,
   teamId |-> body.teamId]

\* Whether the popped job goes to the checker: in popNextJob a job of a
\* crawl when a checker was given, in popNextJobWithBlocking a job of a
\* crawl that is not in the blocked list.
ChecksConcurrency(q, result) ==
  /\ IsDefined(result.crawlId)
  /\ IF q.fn = "popNextJob"
       THEN q.hasChecker
       ELSE Get(result.crawlId) \notin Elements(q.blockedCrawlIds)

\* The blocked list of the retry: [result.crawlId] from popNextJob,
\* [...blockedCrawlIds, result.crawlId] from popNextJobWithBlocking.
RetryBlockedCrawlIds_Same(q, crawlId) == q.blockedCrawlIds
RetryBlockedCrawlIds(q, crawlId) ==
  IF q.fn = "popNextJob"
    THEN <<crawlId>>
    ELSE Append(q.blockedCrawlIds, crawlId)

\* return result / return null / a rejected promise.
Returned(q, result) ==
  [q EXCEPT !.pc = "ended", !.outcome = "job", !.returned = <<result>>,
            !.result = <<>>]

ReturnedNull(q) == [q EXCEPT !.pc = "ended", !.outcome = "null"]

Thrown(q) ==
  [q EXCEPT !.pc = "ended", !.outcome = "thrown", !.result = <<>>]

\* popNextJob(teamId, crawlConcurrencyChecker) posts the first pop, with
\* an empty blocked list.
popNextJobCalled ==
  /\ fdbQueue.pc = "idle"
  /\ fdbQueue' = [fdbQueue EXCEPT !.pc = "pop", !.fn = "popNextJob",
                                  !.blockedCrawlIds = <<>>, !.sent = <<>>]
  /\ UNCHANGED <<pipelineVarsButFdbQueue, call>>

\* The service answers the pop: null when it has no job to hand out, else
\* one of them, which leaves the queue. The code after the await returns
\* the job or calls the checker.
PopReturns ==
  /\ fdbQueue.pc = "pop"
  /\ LET eligible == Eligible(fdbQueue.queue, fdbQueue.sent)
     IN  IF eligible = {}
           THEN fdbQueue' = ReturnedNull(fdbQueue)
           ELSE \E result \in eligible :
                  LET q == [fdbQueue EXCEPT
                              !.queue = @ \ {result},
                              !.popped = @ \cup {result},
                              !.result = <<result>>]
                  IN  fdbQueue' =
                        IF ChecksConcurrency(q, result)
                          THEN [q EXCEPT !.pc = "check"]
                          ELSE Returned(q, result)
  /\ UNCHANGED <<pipelineVarsButFdbQueue, call>>

\* The pop fails (the circuit is open, the service is unreachable or
\* answers with an error status): httpRequest throws, the queue is as it
\* was.
PopFails ==
  /\ fdbQueue.pc = "pop"
  /\ fdbQueue' = Thrown(fdbQueue)
  /\ UNCHANGED <<pipelineVarsButFdbQueue, call>>

\* The checker answers: the job is returned, or pushJob posts it back.
CheckerReturns ==
  /\ fdbQueue.pc = "check"
  /\ \E canRun \in BOOLEAN :
       LET result == Get(fdbQueue.result)
       IN  fdbQueue' =
             IF canRun
               THEN Returned(fdbQueue, result)
               ELSE [fdbQueue EXCEPT
                       !.pc = "push",
                       !.rejected = @ \cup {result}]
  /\ UNCHANGED <<pipelineVarsButFdbQueue, call>>

\* The checker's promise rejects.
CheckerThrows ==
  /\ fdbQueue.pc = "check"
  /\ fdbQueue' = Thrown(fdbQueue)
  /\ UNCHANGED <<pipelineVarsButFdbQueue, call>>

\* The service stores the job pushed back; popNextJobWithBlocking posts
\* the next pop with the crawl blocked.
PushReturns ==
  /\ fdbQueue.pc = "push"
  /\ LET result == Get(fdbQueue.result)
         body == pushJob("team", result,
                         RemainingTimeout(result, fdbQueue.now),
                         result.crawlId)
         stored == Stored(body, fdbQueue.now)
         blocked == RetryBlockedCrawlIds(fdbQueue, Get(result.crawlId))
     IN  fdbQueue' = [fdbQueue EXCEPT
                        !.pc = "pop",
                        !.fn = "popNextJobWithBlocking",
                        !.queue = @ \cup {stored},
                        !.pushedBack = @ \cup {stored},
                        !.result = <<>>,
                        !.blockedCrawlIds = blocked,
                        !.sent = blocked]
  /\ UNCHANGED <<pipelineVarsButFdbQueue, call>>

\* The push-back fails: httpRequest throws out of pushJob and out of the
\* call; the service has stored nothing.
PushFails ==
  /\ fdbQueue.pc = "push"
  /\ fdbQueue' = Thrown(fdbQueue)
  /\ UNCHANGED <<pipelineVarsButFdbQueue, call>>

\* Time passes while the pop or the checker is awaited.
QueueClockAdvances ==
  /\ fdbQueue.pc \in {"pop", "check"}
  /\ fdbQueue.now < MaxClock
  /\ fdbQueue' = [fdbQueue EXCEPT !.now = @ + 1]
  /\ UNCHANGED <<pipelineVarsButFdbQueue, call>>

\* A worker is about to call popNextJob, with or without a checker, on a
\* queue holding any of the jobs.
PopInit ==
  /\ StartOf(DefaultInput)
  /\ frequencyOptions = DefaultFrequencyOptions
  /\ runpod = NoPoll
  /\ circuit = NewCircuit
  /\ \E queue \in SUBSET QueueJobs, hasChecker \in BOOLEAN :
       fdbQueue = [NoPop EXCEPT !.queue = queue, !.hasChecker = hasChecker]
  /\ call = NoCall

PopNext ==
  \/ popNextJobCalled
  \/ PopReturns
  \/ PopFails
  \/ CheckerReturns
  \/ CheckerThrows
  \/ PushReturns
  \/ PushFails
  \/ QueueClockAdvances

\* Every request and every call of the checker settles.
Settles ==
  \/ PopReturns
  \/ PopFails
  \/ CheckerReturns
  \/ CheckerThrows
  \/ PushReturns
  \/ PushFails

PopSpec == PopInit /\ [][PopNext]_vars /\ WF_vars(Settles)

\* ------------------------------------ the pure functions on their own

\* What follows the media type in a content type: nothing, a parameter, or
\* a parameter after optional white space.
Suffixes == {"", ";charset=utf-8", " ;charset=utf-8"}

MediaTypes ==
  {"application/pdf", "APPLICATION/PDF", "application/octet-stream",
   "application/msword", "Application/MSWord", "text/html"}

\* The inputs detectSpecialtyPlan is called with.
DetectionInputs ==
  [headers : {None, Some(ContentType("application/pdf", ""))},
   contentType : {None} \cup {Some(ContentType(base, suffix)) :
                                base \in MediaTypes, suffix \in Suffixes},
   body : {"", "%PDF-", "JVBERi0", "PK", "UEsD", "<html"},
   binary : {"", "JVBERi0", "UEsD", "AAAA"},
   url : {Undefined, "https://example.com/file"},
   status : {None, Some(404)},
   proxyUsed : {Undefined, "stealth"}]

\* The calls getUnsupportedFeatures(meta, engine) for every set of feature
\* flags meta.featureFlags can hold and every engine.
Calls ==
  {[fn |-> "getUnsupportedFeatures", args |-> [flags |-> F, engine |-> e],
    result |-> {}, returned |-> FALSE] :
     F \in SUBSET featureFlags, e \in Engine}

\* The calls detectSpecialtyPlan(logger, input).
DetectionCalls ==
  {[fn |-> "detectSpecialtyPlan", args |-> input, result |-> NoPlan,
    returned |-> FALSE] : input \in DetectionInputs}

\* The calls of scrapePDF that reach its page-count check: whether the PDF
\* is to be parsed, the pages of the file, the maxPages of the request and
\* the time the request has left, in milliseconds.
PDFCalls ==
  {[fn |-> "scrapePDF",
    args |-> [shouldParse |-> p, numPages |-> n, maxPages |-> m,
              scrapeTimeout |-> t],
    result |-> [error |-> "none", pageCount |-> 0, requiredTime |-> 0],
    returned |-> FALSE] :
     p \in BOOLEAN,
     n \in {0, 1, 2, 199, 200, 201},
     m \in {None, Some(1), Some(200), Some(300)},
     t \in {None, Some(0), Some(149), Some(150), Some(151), Some(29999),
            Some(30000), Some(30001)}}

\* The requests buildFeatureFlags is called for: every combination of the
\* options and internal options it reads.
FlagInputs ==
  {[DefaultInput EXCEPT
      !.actions = f.actions, !.screenshot = f.screenshot,
      !.branding = f.branding, !.waitFor = f.waitFor, !.atsv = f.atsv,
      !.location = f.location, !.mobile = f.mobile,
      !.skipTlsVerification = f.skipTlsVerification,
      !.fastMode = f.fastMode, !.proxy = f.proxy, !.blockAds = f.blockAds] :
     f \in [actions : {None, Some(<<>>), Some(<<"click">>)},
            screenshot : {None,
                          Some(Format("screenshot", FALSE, FALSE, FALSE)),
                          Some(Format("screenshot", TRUE, FALSE, FALSE))},
            branding : BOOLEAN, waitFor : {0, 1000}, atsv : BOOLEAN,
            location : BOOLEAN, mobile : BOOLEAN,
            skipTlsVerification : {None, Some(TRUE), Some(FALSE)},
            fastMode : BOOLEAN, proxy : {Undefined, "basic", "stealth"},
            blockAds : {None, Some(FALSE), Some(TRUE)}]}

\* The calls buildFeatureFlags(url, options, internalOptions).
FlagCalls ==
  {[fn |-> "buildFeatureFlags",
    args |-> [options |-> OptionsOf(in),
              internalOptions |-> InternalOptionsOf(in)],
    result |-> {}, returned |-> FALSE] : in \in FlagInputs}

CallInit ==
  /\ StartOf(DefaultInput)
  /\ frequencyOptions = DefaultFrequencyOptions
  /\ runpod = NoPoll
  /\ circuit = NewCircuit
  /\ fdbQueue = NoPop
  /\ \/ call \in Calls
     \/ call \in DetectionCalls
     \/ call \in PDFCalls
     \/ call \in FlagCalls

\* getUnsupportedFeatures returns.
Call_getUnsupportedFeatures ==
  /\ call.fn = "getUnsupportedFeatures"
  /\ ~call.returned
  /\ call' = [call EXCEPT
                !.result = getUnsupportedFeatures(call.args.flags,
                                                  call.args.engine),
                !.returned = TRUE]
  /\ UNCHANGED pipelineVars

\* detectSpecialtyPlan returns or throws.
Call_detectSpecialtyPlan ==
  /\ call.fn = "detectSpecialtyPlan"
  /\ ~call.returned
  /\ \E write \in WriteOutcomes :
       call' = [call EXCEPT !.result = detectSpecialtyPlan(call.args, write),
                            !.returned = TRUE]
  /\ UNCHANGED pipelineVars

\* scrapePDF passes its page-count check or throws there.
Call_scrapePDF ==
  /\ call.fn = "scrapePDF"
  /\ ~call.returned
  /\ call' = [call EXCEPT
                !.result = PDFTimeCheck(call.args.shouldParse,
                                        call.args.numPages,
                                        call.args.maxPages,
                                        call.args.scrapeTimeout),
                !.returned = TRUE]
  /\ UNCHANGED pipelineVars

\* buildFeatureFlags returns.
Call_buildFeatureFlags ==
  /\ call.fn = "buildFeatureFlags"
  /\ ~call.returned
  /\ call' = [call EXCEPT
                !.result = buildFeatureFlags(call.args.options,
                                             call.args.internalOptions),
                !.returned = TRUE]
  /\ UNCHANGED pipelineVars

CallNext ==
  \/ Call_getUnsupportedFeatures
  \/ Call_detectSpecialtyPlan
  \/ Call_scrapePDF
  \/ Call_buildFeatureFlags

CallSpec == CallInit /\ [][CallNext]_vars

\* ------------------------------------------------------------- claims

\* The live engines scrapeURLWithEngine was called with, in order.
LiveInvoked == SelectSeq(invoked, LAMBDA e : e # "index")

\* The engine override of the request: internalOptions.forceEngine, else the
\* engine the forcing table maps the URL's domain to.
OverrideEngine ==
  IF internalOptions.forceEngine # Undefined THEN internalOptions.forceEngine
  ELSE getEngineForUrl(engineMappings, url)

\* The engine that serves the request when the index does not: the override,
\* else the first configured live backend.
ServingEngine ==
  IF OverrideEngine # Undefined THEN OverrideEngine
  ELSE selectLiveEngine(config)

\* options.actions holds an action of the given type.
HasAction(type) ==
  /\ IsDefined(options.actions)
  /\ \E i \in DOMAIN Get(options.actions) : Get(options.actions)[i] = type

\* C1: when no engine is forced, the index gating conditions hold and the
\* index engine returns successfully, no live engine is invoked (the index
\* is the only engine invoked) and the document assembled, which is the one
\* a successful scrapeURL returns, has metadata.cacheState = "hit".
C1_CacheHitShortCircuits ==
  (/\ OverrideEngine = Undefined
   /\ shouldUseIndex(config, options)
   /\ indexOutcome = "ok")
    => /\ LiveInvoked = <<>>
       /\ invoked = <<"index">>
       /\ (document.present => document.cacheState = "hit")
       /\ (response.kind = "success" => document.present)

\* C1 witness: a request without override has ended in success on a cache hit.
C1_Witness ==
  /\ pc = "done"
  /\ response.kind = "success"
  /\ OverrideEngine = Undefined
  /\ indexOutcome = "ok"
  /\ document.cacheState = "hit"
  /\ invoked = <<"index">>

\* C2 (as stated): when the cache-first index attempt throws a miss signal,
\* the live engine is invoked exactly once, and a returned document has
\* metadata.cacheState = "miss".
C2_MissInvokesLiveOnce ==
  (/\ pc = "done"
   /\ OverrideEngine = Undefined
   /\ IsMissSignal(indexOutcome))
    => /\ Len(LiveInvoked) = 1
       /\ (response.kind = "success" => document.cacheState = "miss")

\* C3: when the cache-first index attempt fails with an error that is no
\* miss signal, the request has ended in failure with that error (returned
\* as {success: false, error}; the cause of an AbortManagerThrownError is
\* thrown on instead) and no live engine has been invoked.
C3_IndexErrorPropagates ==
  (/\ OverrideEngine = Undefined
   /\ indexOutcome \in IndexErrors \ {"IndexMissError", "NoCachedDataError"})
    => /\ pc = "done"
       /\ LiveInvoked = <<>>
       /\ IF indexOutcome = "AbortManagerThrownError"
            THEN response.kind = "thrown" /\ response.error \in AbortCauses
            ELSE response.kind = "failure" /\ response.error = indexOutcome

\* C3 witness: the cache-first attempt threw a SiteError and the request
\* failed with it.
C3_Witness ==
  /\ pc = "done"
  /\ OverrideEngine = Undefined
  /\ indexOutcome = "SiteError"
  /\ response.kind = "failure"
  /\ response.error = "SiteError"

\* C4: when the override names the index engine, every failure of the index
\* engine, miss signals included, is the request's failure and no live
\* engine is invoked.
C4_ForcedIndexFailureSurfaces ==
  (/\ OverrideEngine = "index"
   /\ indexOutcome \in IndexErrors)
    => /\ pc = "done"
       /\ LiveInvoked = <<>>
       /\ IF indexOutcome = "AbortManagerThrownError"
            THEN response.kind = "thrown" /\ response.error \in AbortCauses
            ELSE response.kind = "failure" /\ response.error = indexOutcome

\* C4 witness: the forced index engine signalled no cached data and the
\* request failed with that signal.
C4_Witness ==
  /\ pc = "done"
  /\ OverrideEngine = "index"
  /\ indexOutcome = "NoCachedDataError"
  /\ response.kind = "failure"
  /\ response.error = "NoCachedDataError"
  /\ invoked = <<"index">>

\* C5: when the override (per-request forceEngine, or the per-domain mapping
\* when the request forces none) names a live engine, the index is never
\* attempted, selectLiveEngine is not evaluated, and every engine invoked is
\* the forced one.
C5_LiveOverrideBypasses ==
  (OverrideEngine \in Engine \ {"index"})
    => /\ indexOutcome = "none"
       /\ ~selectLiveEngineCalled
       /\ \A i \in DOMAIN enginesAttempted : enginesAttempted[i] = OverrideEngine
       /\ \A i \in DOMAIN invoked : invoked[i] = OverrideEngine

\* C5 witness: the forcing table maps the URL to playwright on a deployment
\* whose priority order would pick fire-engine and whose index is eligible;
\* playwright alone was invoked.
C5_Witness ==
  /\ pc = "done"
  /\ getEngineForUrl(engineMappings, url) = "playwright"
  /\ OverrideEngine = "playwright"
  /\ config.FIRE_ENGINE_BETA_URL
  /\ shouldUseIndex(config, options)
  /\ invoked = <<"playwright">>

\* C6 (as stated): if the request carries the actions flag and the engine
\* that would serve it marks actions unsupported, then, once engine selection
\* is reached, no engine (index or live) is invoked and the request fails
\* with ActionsNotSupportedError.
C6_ActionsRejectedBeforeAnyEngine ==
  (/\ pc # "start"
   /\ "actions" \in meta.featureFlags
   /\ ~engineOptions[ServingEngine]["actions"]
   /\ enginesAttempted # <<>>)
    => /\ invoked = <<>>
       /\ (pc = "done" =>
             /\ response.kind = "failure"
             /\ response.error = "ActionsNotSupportedError")

\* C7 (as stated): if branding is requested and the engine that would serve
\* the request does not support branding, then, once engine selection is
\* reached, the request fails before any engine is invoked, with an error
\* that scrapeURL classifies as a named kind, not as unknown.
C7_BrandingRejectedWithNamedError ==
  (/\ pc = "done"
   /\ "branding" \in meta.featureFlags
   /\ ~engineOptions[ServingEngine]["branding"]
   /\ enginesAttempted # <<>>)
    => /\ invoked = <<>>
       /\ response.kind = "failure"
       /\ response.errorType # "unknown"

\* C8: under zero data retention a request that asks for a screenshot format
\* (normal or full page) or holds a screenshot or pdf action never has an
\* engine attempted or invoked, and ends in failure with ZDRViolationError.
C8_ZDRRejectsBeforeAnyEngine ==
  (/\ internalOptions.zeroDataRetention
   /\ \/ HasFormatOfType(options.formats, "screenshot")
      \/ HasAction("screenshot")
      \/ HasAction("pdf"))
    => /\ invoked = <<>>
       /\ enginesAttempted = <<>>
       /\ indexOutcome = "none"
       /\ (pc = "done" =>
             /\ response.kind = "failure"
             /\ response.error = "ZDRViolationError")

\* C8 witness: a request with a pdf action under zero data retention has
\* ended with ZDRViolationError.
C8_Witness ==
  /\ pc = "done"
  /\ internalOptions.zeroDataRetention
  /\ HasAction("pdf")
  /\ response.kind = "failure"
  /\ response.error = "ZDRViolationError"

\* C9 (as stated): when checkRobotsOnScrape is set, the URL is not
\* /robots.txt and the robots document disallows the URL, no engine is
\* invoked for the request and scrapeURL ends with a CrawlDenialError
\* failure.
C9_RobotsDenialEndsRequest ==
  (robots = "blocked")
    => /\ invoked = <<>>
       /\ (pc = "done" =>
             /\ response.kind = "failure"
             /\ response.error = "CrawlDenialError")

\* C10: when the robots check is required and loading the robots document
\* fails, the failure is absorbed and the URL treated as allowed: scrapeURL
\* goes on to scrapeURLSingle, never ends with a denial or with the load
\* error, and reaches engine selection unless scrapeURLSingle's own entry
\* checks (zero data retention, cancellation) end the request.
C10_RobotsLoadFailureAbsorbed ==
  (robots = "fetchFailed")
    => /\ internalOptions.teamFlags.checkRobotsOnScrape
       /\ ~url.isRobotsTxtPath
       /\ pc # "robots"
       /\ response.error # "CrawlDenialError"
       /\ (pc # "single" /\ enginesAttempted = <<>>) =>
            /\ pc = "done"
            /\ \/ /\ response.kind = "failure"
                  /\ response.error = "ZDRViolationError"
                  /\ ZDRViolation(meta, internalOptions) # "none"
               \/ /\ response.kind = "thrown"
                  /\ response.error \in AbortCauses
                  /\ Aborted

\* C10 witness: the robots document could not be loaded and the request
\* went on to end in success after an engine was invoked.
C10_Witness ==
  /\ pc = "done"
  /\ robots = "fetchFailed"
  /\ response.kind = "success"
  /\ invoked # <<>>

\* ---------------------------------------------- cancellation and deadline

\* C11: when the pipeline ends on the request's own deadline (the timer
\* fired and a check point threw for it), scrapeURL has returned
\* {success: false, error} and the error is the scrape-tier timeout error.
C11_DeadlineReturnsTimeoutFailure ==
  (/\ pc = "done"
   /\ response.errorType = "AbortManagerThrownError"
   /\ externalAbort # "aborted")
    => /\ response.kind = "failure"
       /\ response.error = AbortInner

\* C12: scrapeURL lets no exception escape: it ends by returning a success
\* or {success: false, error}, and only the cause of an externally supplied
\* cancellation is thrown on.
C12_NoExceptionEscapes ==
  (pc = "done")
    => \/ response.kind \in {"success", "failure"}
       \/ /\ response.kind = "thrown"
          /\ response.error = ExternalCause

\* C13: when scrapeURL has completed, a deadline timer it started is no
\* longer pending.
C13_TimerClearedOnCompletion ==
  (pc = "done") => abortHandle # "armed"

\* A step that starts a pipeline stage: an engine is invoked, the specialty
\* download or parser is called, a postprocessor is run or the transformer
\* chain is entered.
StageStarts ==
  \/ Len(invoked') > Len(invoked)
  \/ /\ pc' # pc
     /\ pc' \in {"download", "parse", "postprocessorRun", "transformers"}

\* C14: once the request's cancellation or deadline has fired, no step
\* starts a pipeline stage.
C14_NoStageAfterAbort ==
  [][Aborted => ~StageStarts]_vars

\* ------------------------------------------------------- stage order

\* The positions of a stage's entries in stageLog.
Positions(stages) ==
  {i \in 1..Len(stageLog) : stageLog[i].stage \in stages}

\* Every entry of the stages a comes before every entry of the stages b.
Before(a, b) == \A i \in Positions(a), j \in Positions(b) : i < j

EngineStages == {"engine", "engineReturned"}

SpecialtyStages == {"detect", "download", "parse", "parsed"}

PostprocessorStages == {"shouldRun", "run", "runReturned", "runThrew"}

\* C15: within one request every engine invocation has completed before
\* specialty detection starts, detection and rerouting have completed before
\* the first postprocessor is evaluated, and the transformers come last; a
\* postprocessor or the transformers only see a result an engine returned
\* and, when it is a live engine's, the specialty detection has passed (and
\* the parser has returned when a specialty plan was found).
C15_StagesInOrder ==
  /\ Before(EngineStages, SpecialtyStages)
  /\ Before(SpecialtyStages, PostprocessorStages \cup {"transformers"})
  /\ Before(PostprocessorStages, {"transformers"})
  /\ Before({"detect"}, {"download", "parse", "parsed"})
  /\ Before({"download", "parse"}, {"parsed"})
  /\ Positions(SpecialtyStages) # {} => Positions({"engineReturned"}) # {}
  /\ Positions(PostprocessorStages \cup {"transformers"}) # {}
       => /\ Positions({"engineReturned"}) # {}
          /\ LiveInvoked # <<>> => Positions({"detect"}) # {}
          /\ specialtyPlan.type # "none" => Positions({"parsed"}) # {}

\* C15 witness: a request served by a live engine whose result was a PDF
\* that had to be downloaded, parsed, postprocessed and transformed.
C15_Witness ==
  /\ pc = "done"
  /\ response.kind = "success"
  /\ specialtyPlan.type = "pdf"
  /\ Positions({"download"}) # {}
  /\ Positions({"parsed"}) # {}
  /\ Positions({"runReturned"}) # {}
  /\ Positions({"transformers"}) # {}

\* ---------------------------------------------------- temporary files

\* C16: when the request has completed, the temporary file created for a
\* specialty payload has been deleted, on every exit path.
C16_TempFileDeleted ==
  (pc = "done") => tempFile # "exists"

\* ------------------------------------------------- postprocessor chain

\* The step in which a postprocessor's run throws and the loop goes on.
PostprocessorThrew ==
  /\ pc = "postprocessorRun"
  /\ Len(stageLog') = Len(stageLog) + 1
  /\ stageLog'[Len(stageLog')].stage = "runThrew"

\* The names in a result's postprocessorsUsed.
Used(result) ==
  {result.postprocessorsUsed[i] : i \in 1..Len(result.postprocessorsUsed)}

\* C17: when a postprocessor's run throws, the working result stays the
\* value it had before the step, the postprocessor's name is not in
\* postprocessorsUsed, the request does not end there, and once the chain is
\* through every postprocessor of the list has been evaluated.
C17_PostprocessorFailureIsolated ==
  /\ [][PostprocessorThrew =>
          /\ engineResult' = engineResult
          /\ pc' = "postprocess"
          /\ ppIndex' = ppIndex + 1]_vars
  /\ [](/\ \A i \in Positions({"runThrew"}) :
              stageLog[i].n \notin Used(engineResult)
        /\ (stageLog # <<>> /\ stageLog[Len(stageLog)].stage = "run")
             => pc = "postprocessorRun"
        /\ Positions({"transformers"}) # {}
             => \A n \in 1..Len(postprocessors) :
                  \E i \in Positions({"shouldRun"}) : stageLog[i].n = n)

\* C17 witness: the first postprocessor threw, the second ran and returned
\* and the request succeeded with only the second in postprocessorsUsed.
C17_Witness ==
  /\ pc = "done"
  /\ response.kind = "success"
  /\ \E i \in Positions({"runThrew"}) : stageLog[i].n = 1
  /\ \E i \in Positions({"runReturned"}) : stageLog[i].n = 2
  /\ document.postprocessorsUsed = <<2>>

\* The names of the postprocessors whose run had returned before the i-th
\* entry of stageLog, in order.
ReturnedBefore(i) ==
  LET returned == SelectSeq(SubSeq(stageLog, 1, i - 1),
                            LAMBDA e : e.stage = "runReturned")
  IN [j \in 1..Len(returned) |-> returned[j].n]

\* The entries of stageLog that are evaluations of shouldRun, in order.
Evaluations == SelectSeq(stageLog, LAMBDA e : e.stage = "shouldRun")

\* C18: the chain is traversed once in list order: the k-th evaluation of
\* shouldRun is of the k-th postprocessor, it is given the postprocessorsUsed
\* the preceding runs produced, and a postprocessor runs only right after
\* its own shouldRun, hence at most once.
C18_ChainTraversedOnceInOrder ==
  /\ Len(Evaluations) <= Len(postprocessors)
  /\ \A k \in 1..Len(Evaluations) : Evaluations[k].n = k
  /\ \A i \in Positions({"shouldRun"}) : stageLog[i].seen = ReturnedBefore(i)
  /\ \A i \in Positions({"run"}) :
       /\ i > 1
       /\ stageLog[i - 1].stage = "shouldRun"
       /\ stageLog[i - 1].n = stageLog[i].n
  /\ \A i, j \in Positions({"run"}) : stageLog[i].n = stageLog[j].n => i = j

\* C18 witness: the second postprocessor's shouldRun was evaluated on the
\* result the first one's run had produced.
C18_Witness ==
  /\ pc = "done"
  /\ \E i \in Positions({"shouldRun"}) :
       /\ stageLog[i].n = 2
       /\ stageLog[i].seen = <<1>>
  /\ \E i \in Positions({"run"}) : stageLog[i].n = 2

\* ------------------------------------------------- capability matching

\* The flags an engine's capability table marks supported.
Capabilities(engine) ==
  {flag \in featureFlags : engineOptions[engine][flag]}

\* C19: for every set F of requested feature flags and every engine E,
\* getUnsupportedFeatures returns F without the flags E's capability table
\* marks supported: nothing when E supports all of F, never a flag outside F.
C19_UnsupportedIsSetDifference ==
  (call.fn = "getUnsupportedFeatures" /\ call.returned)
    => /\ call.result = call.args.flags \ Capabilities(call.args.engine)
       /\ call.result \subseteq call.args.flags
       /\ (call.args.flags \subseteq Capabilities(call.args.engine))
            => call.result = {}

\* C19 witness: fetch asked for actions and skipTlsVerification: only actions
\* is unsupported.
C19_Witness ==
  /\ call.fn = "getUnsupportedFeatures"
  /\ call.returned
  /\ call.args.engine = "fetch"
  /\ call.args.flags = {"actions", "skipTlsVerification"}
  /\ call.result = {"actions"}

\* The engine selectEngineAndScrape chose last.
ChosenEngine == enginesAttempted[Len(enginesAttempted)]

\* C20: whenever selectLiveEngine is consulted, the live engine is
\* fire-engine chrome-cdp if that backend is configured, else playwright if
\* that one is, else fetch, whatever the request asks for and whatever the
\* index attempt came to.
C20_LiveEnginePriority ==
  selectLiveEngineCalled
    => /\ enginesAttempted # <<>>
       /\ config.FIRE_ENGINE_BETA_URL
            => ChosenEngine = "fire-engine;chrome-cdp"
       /\ (~config.FIRE_ENGINE_BETA_URL /\ config.PLAYWRIGHT_MICROSERVICE_URL)
            => ChosenEngine = "playwright"
       /\ (~config.FIRE_ENGINE_BETA_URL /\ ~config.PLAYWRIGHT_MICROSERVICE_URL)
            => ChosenEngine = "fetch"

\* C20 witness: both backends are configured, the index attempt missed and
\* the fire-engine was chosen.
C20_Witness ==
  /\ selectLiveEngineCalled
  /\ config.FIRE_ENGINE_BETA_URL
  /\ config.PLAYWRIGHT_MICROSERVICE_URL
  /\ indexOutcome = "IndexMissError"
  /\ invoked = <<"index", "fire-engine;chrome-cdp">>

\* ------------------------------------------------- specialty detection

\* A call of detectSpecialtyPlan has returned a plan or undefined.
DetectReturned ==
  /\ call.fn = "detectSpecialtyPlan"
  /\ call.returned
  /\ call.result.error = "none"

\* The content type detectSpecialtyPlan detects: input.contentType, else the
\* content-type header.
Detected ==
  IF IsDefined(call.args.contentType) THEN call.args.contentType
  ELSE call.args.headers

\* C21 (as stated): a detected content type equal to or starting with
\* application/pdf yields the type pdf, one equal to or starting with a known
\* office-document media type yields document, and the plan's content type
\* is the detected one in lower case.
C21_ContentTypeClassifies ==
  (DetectReturned /\ IsDefined(Detected))
    => /\ Get(Detected).base = "application/pdf" => call.result.type = "pdf"
       /\ Get(Detected).base \in documentTypes
            => call.result.type = "document"
       /\ call.result.type # "none"
            => call.result.contentType =
                 Some([base |-> LowerBase(Get(Detected).base),
                       suffix |-> Get(Detected).suffix])

\* The leading signature of the body or of the binary payload is a PDF's.
PdfSignature ==
  \/ call.args.body \in {"%PDF-", "JVBERi0"}
  \/ call.args.binary = "JVBERi0"

\* The leading signature of the body or of the binary payload is that of a
\* zip-family office document.
DocumentSignature ==
  \/ call.args.body \in {"PK", "UEsD"}
  \/ call.args.binary = "UEsD"

\* The detected content type is application/octet-stream, bare or followed
\* by parameters.
OctetStream ==
  /\ IsDefined(Detected)
  /\ LowerBase(Get(Detected).base) = "application/octet-stream"
  /\ Get(Detected).suffix \in {"", ";charset=utf-8"}

\* The detected content type is one detectSpecialtyPlan classifies by.
MatchingContentType ==
  /\ IsDefined(Detected)
  /\ \/ LowerBase(Get(Detected).base) \in documentTypes
     \/ /\ LowerBase(Get(Detected).base) = "application/pdf"
        /\ Get(Detected).suffix \in {"", ";charset=utf-8"}

\* C22 (as stated): with the content type application/octet-stream or
\* absent, a PDF signature yields pdf and a document signature yields
\* document; without content type, body and binary payload the result is
\* undefined, and so it is for every input with neither a matching content
\* type nor a matching signature.
C22_SignatureClassifies ==
  DetectReturned
    => /\ (OctetStream \/ ~IsDefined(Detected))
            => /\ PdfSignature => call.result.type = "pdf"
               /\ DocumentSignature => call.result.type = "document"
       /\ (~IsDefined(Detected) /\ call.args.body = ""
             /\ call.args.binary = "")
            => call.result.type = "none"
       /\ (~MatchingContentType /\ ~PdfSignature /\ ~DocumentSignature)
            => call.result.type = "none"

\* C22 (amended): as C22, where a document signature comes first: a PDF
\* signature yields pdf when no document signature is found in the body or
\* the binary payload.
C22_DocumentSignatureFirst ==
  DetectReturned
    => /\ (OctetStream \/ ~IsDefined(Detected))
            => /\ (PdfSignature /\ ~DocumentSignature)
                    => call.result.type = "pdf"
               /\ DocumentSignature => call.result.type = "document"
       /\ (~IsDefined(Detected) /\ call.args.body = ""
             /\ call.args.binary = "")
            => call.result.type = "none"
       /\ (~MatchingContentType /\ ~PdfSignature /\ ~DocumentSignature)
            => call.result.type = "none"

\* C22 witness: an octet-stream whose body starts as a PDF and whose binary
\* payload starts as a zip archive was classified a document.
C22_Witness ==
  /\ DetectReturned
  /\ OctetStream
  /\ call.args.body = "%PDF-"
  /\ call.args.binary = "UEsD"
  /\ call.result.type = "document"

\* C23 (as stated): a plan returned for an input with an inline binary
\* payload holds a prefetch descriptor whose file was written, with the
\* input's url, status and proxy tier; a plan is without prefetch only when
\* the input had no inline binary payload.
C23_InlinePayloadPrefetched ==
  (DetectReturned /\ call.result.type # "none")
    => /\ call.args.binary # ""
            => /\ IsDefined(call.result.prefetch)
               /\ Get(call.result.prefetch).file = "written"
               /\ Get(call.result.prefetch).url = call.args.url
               /\ Get(call.result.prefetch).status =
                    (IF IsDefined(call.args.status)
                       THEN Get(call.args.status) ELSE 200)
               /\ Get(call.result.prefetch).proxyUsed =
                    (IF call.args.proxyUsed = Undefined THEN "basic"
                     ELSE call.args.proxyUsed)
       /\ ~IsDefined(call.result.prefetch) => call.args.binary = ""

\* The specialty plan names a type but carries no prefetch.
MissingPrefetch ==
  specialtyPlan.type # "none" /\ ~IsDefined(specialtyPlan.prefetch)

\* C24: when the fire-engine chrome-cdp answered and the result is classified
\* pdf or document without prefetch, the request has failed with an
\* EngineError and neither a download nor a parser was started; for every
\* other engine a missing prefetch leads to exactly one dedicated download,
\* and the parser is invoked only after it, on the downloaded file.
C24_MissingPrefetchHandling ==
  MissingPrefetch
    => IF outcome.engine = "fire-engine;chrome-cdp"
         THEN /\ pc = "done"
              /\ response.kind = "failure"
              /\ response.error = "EngineError"
              /\ Positions({"download", "parse", "parsed"}) = {}
              /\ tempFile = "none"
         ELSE /\ Cardinality(Positions({"download"})) = 1
              /\ Before({"download"}, {"parse", "parsed"})
              /\ Positions({"parse"}) # {}
                   => /\ Cardinality(Positions({"parse"})) = 1
                      /\ meta.pdfPrefetch.source = "download"
                           \/ meta.documentPrefetch.source = "download"

\* C24 witness: the fire-engine answered with a PDF content type and no
\* inline payload, and the request failed with the EngineError.
C24_Witness ==
  /\ pc = "done"
  /\ outcome.engine = "fire-engine;chrome-cdp"
  /\ specialtyPlan.type = "pdf"
  /\ ~IsDefined(specialtyPlan.prefetch)
  /\ response.kind = "failure"
  /\ response.error = "EngineError"
  /\ invoked # <<>>

\* C25 (as stated): a live engine's result classified as pdf is parsed by
\* the PDF parser on the prefetched file and a returned document carries
\* the parser's output; when the prefetched file's content type is the one
\* the classification went by, the request never fails with
\* PDFPrefetchFailed.
C25_PdfClassificationParses ==
  (/\ pc = "done"
   /\ specialtyPlan.type = "pdf"
   /\ meta.pdfPrefetch.state = "file"
   /\ meta.pdfPrefetch.contentType = specialtyPlan.contentType)
    => /\ Positions({"parse"}) # {}
       /\ response.error # "PDFPrefetchFailed"
       /\ response.kind = "success"
            => /\ Positions({"parsed"}) # {}
               /\ document.payload \in {"pdf", "postprocessed"}

\* The downloads of the specialty payload made after the engine returned:
\* the dedicated one of applySpecialtyParsing and scrapePDF's own.
Downloads == Positions({"download", "ownDownload"})

\* C26: the specialty payload is downloaded at most once after the engine
\* call: when the PDF parser is invoked with the prefetch slot populated it
\* makes no download of its own (it downloads only when the slot is unset),
\* so an inline prefetch means no download at all and a dedicated download
\* is the only one.
C26_PayloadFetchedAtMostOnce ==
  /\ Cardinality(Downloads) <= 1
  /\ (Positions({"parse"}) # {} /\ specialtyPlan.type = "pdf"
        /\ meta.pdfPrefetch.state = "file")
       => /\ Positions({"ownDownload"}) = {}
          /\ meta.pdfPrefetch.source = "inline" => Downloads = {}
  /\ Positions({"ownDownload"}) # {}
       => meta.pdfPrefetch.state \in {Undefined, "null"}

\* C26 witness: a PDF without inline payload was downloaded once by
\* applySpecialtyParsing and parsed from that file.
C26_Witness ==
  /\ pc = "done"
  /\ specialtyPlan.type = "pdf"
  /\ meta.pdfPrefetch.source = "download"
  /\ Positions({"parsed"}) # {}
  /\ Cardinality(Downloads) = 1
  /\ response.kind = "success"

\* ------------------------------------------------- PDF page-count check

\* The pages scrapePDF has to parse: all of the file, or maxPages of them
\* when that is set and smaller.
PagesToParse ==
  IF IsDefined(call.args.maxPages)
       /\ Get(call.args.maxPages) < call.args.numPages
    THEN Get(call.args.maxPages)
    ELSE call.args.numPages

\* C27: scrapePDF with parsing enabled fails with PDFInsufficientTimeError
\* exactly when the pages to parse times 150 ms exceed the time the request
\* has left; the error then reports the pages to parse and that time plus
\* 5000 ms; without a timeout, or with parsing disabled, it is not raised.
C27_InsufficientTimeCheck ==
  (call.fn = "scrapePDF" /\ call.returned)
    => /\ (call.result.error = "PDFInsufficientTimeError")
            <=> /\ call.args.shouldParse
                /\ IsDefined(call.args.scrapeTimeout)
                /\ PagesToParse * 150 > Get(call.args.scrapeTimeout)
       /\ call.result.error = "PDFInsufficientTimeError"
            => /\ call.result.pageCount = PagesToParse
               /\ call.result.requiredTime = PagesToParse * 150 + 5000
       /\ ~IsDefined(call.args.scrapeTimeout) => call.result.error = "none"

\* C27 witness: a file of 201 pages, cut to 200 by maxPages, with 29999 ms
\* left: the error reports 200 pages and 35000 ms.
C27_Witness ==
  /\ call.fn = "scrapePDF"
  /\ call.returned
  /\ call.args.numPages = 201
  /\ call.args.maxPages = Some(200)
  /\ call.args.scrapeTimeout = Some(29999)
  /\ call.result.error = "PDFInsufficientTimeError"
  /\ call.result.requiredTime = 35000

\* ------------------------------------------------- feature-flag deriver

\* A call of buildFeatureFlags has returned.
FlagsReturned == call.fn = "buildFeatureFlags" /\ call.returned

\* The options of the call leave actions, screenshot, branding, waitFor,
\* location, mobile, skipTlsVerification, fastMode, proxy and blockAds
\* absent (a wait time of 0 is the absent one).
OptionsAbsent ==
  LET opts == call.args.options
  IN /\ opts.actions = None
     /\ \A f \in opts.formats : f.type \notin {"screenshot", "branding"}
     /\ opts.waitFor = 0
     /\ ~opts.location
     /\ ~opts.mobile
     /\ opts.skipTlsVerification = None
     /\ ~opts.fastMode
     /\ opts.proxy = Undefined
     /\ opts.blockAds = None

\* Every flag derived has its option set, waitFor is derived only for a
\* non-zero wait time and at most one screenshot flag is derived.
FlagsOnlyWhenSet ==
  LET opts == call.args.options
      flags == call.result
  IN /\ "actions" \in flags => opts.actions # None
     /\ (flags \cap {"screenshot", "screenshot@fullScreen"} # {})
          => \E f \in opts.formats : f.type = "screenshot"
     /\ "branding" \in flags => \E f \in opts.formats : f.type = "branding"
     /\ "waitFor" \in flags => opts.waitFor # 0
     /\ "atsv" \in flags => call.args.internalOptions.atsv
     /\ "location" \in flags => opts.location
     /\ "mobile" \in flags => opts.mobile
     /\ "skipTlsVerification" \in flags => opts.skipTlsVerification = Some(TRUE)
     /\ "useFastMode" \in flags => opts.fastMode
     /\ "stealthProxy" \in flags => opts.proxy = "stealth"
     /\ "disableAdblock" \in flags => opts.blockAds = Some(FALSE)
     /\ ~({"screenshot", "screenshot@fullScreen"} \subseteq flags)

\* C28 (as stated): a flag is derived only when its option is set; options
\* that leave the ten listed options absent derive the empty flag set.
C28_AbsentOptionsDeriveNoFlags ==
  FlagsReturned
    => /\ FlagsOnlyWhenSet
       /\ OptionsAbsent => call.result = {}

\* C28 (amended): as C28, where the empty flag set also requires that the
\* internal option atsv is not set.
C28_AbsentOptionsAndAtsv ==
  FlagsReturned
    => /\ FlagsOnlyWhenSet
       /\ (OptionsAbsent /\ ~call.args.internalOptions.atsv)
            => call.result = {}

\* C28 witness: a request that only sets skipTlsVerification to false and
\* blockAds to true derived no flag.
C28_Witness ==
  /\ FlagsReturned
  /\ call.args.options.skipTlsVerification = Some(FALSE)
  /\ call.args.options.blockAds = Some(TRUE)
  /\ call.args.options.actions = None
  /\ call.args.options.waitFor = 0
  /\ call.result = {}

\* C29: building the request context and every later stage leave the
\* caller's options and internal options, the URL, meta.options and
\* meta.featureFlags as they were, and every engine invocation starts from a
\* flag set equal to that of meta.
C29_ContextAndOptionsUnchanged ==
  [][/\ options' = options
     /\ internalOptions' = internalOptions
     /\ url' = url
     /\ pc # "start" => /\ meta'.featureFlags = meta.featureFlags
                        /\ meta'.options = meta.options
     /\ Len(invoked') > Len(invoked) => engineFlags' = meta'.featureFlags]_vars

\* C29, the part that holds: once the context is built nothing changes the
\* caller's objects, meta.options or meta.featureFlags, and an engine's
\* change of its own flag set reaches neither meta nor the next engine.
C29_FrameAfterContextBuilt ==
  [][pc # "start" =>
       /\ options' = options
       /\ internalOptions' = internalOptions
       /\ url' = url
       /\ meta'.featureFlags = meta.featureFlags
       /\ meta'.options = meta.options
       /\ Len(invoked') > Len(invoked) =>
            engineFlags' = meta'.featureFlags]_vars

\* The positions of scrapeURL up to the return of selectEngineAndScrape.
EngineStagePcs ==
  {"start", "robots", "single", "index", "live", "download", "parse"}

\* The winner of a successful request is the last engine invoked: the index
\* on a cache hit, else the live engine, which is the forced one if an
\* engine other than the index is forced.
WinnerServedTheDocument ==
  (pc = "done" /\ response.kind = "success") =>
    /\ invoked # <<>>
    /\ meta.winnerEngine = invoked[Len(invoked)]
    /\ indexOutcome = "ok" => meta.winnerEngine = "index"
    /\ indexOutcome # "ok" =>
         /\ LiveInvoked # <<>>
         /\ meta.winnerEngine = LiveInvoked[Len(LiveInvoked)]
    /\ OverrideEngine \notin {Undefined, "index"} =>
         meta.winnerEngine = OverrideEngine

\* meta.winnerEngine is assigned once, by the step that ends the engine
\* stage with a result.
WinnerAssignedOnce ==
  [][meta'.winnerEngine # meta.winnerEngine =>
       /\ meta.winnerEngine = Undefined
       /\ pc \in EngineStagePcs
       /\ pc' = "postprocess"]_vars

\* C30 (as stated): a successful request has exactly one winner, assigned
\* once after the engine stage and equal to the engine that served the
\* document, and a request that failed has none.
C30_ExactlyOneWinner ==
  /\ []WinnerServedTheDocument
  /\ WinnerAssignedOnce
  /\ [](pc = "done" /\ response.kind # "success" =>
          meta.winnerEngine = Undefined)

\* A request that ends before selectEngineAndScrape has returned a result
\* ends without winner.
NoWinnerWithoutEngineResult ==
  [][(pc \in EngineStagePcs /\ pc' = "done") =>
       meta'.winnerEngine = Undefined]_vars

\* C30 (amended): as stated for the successful request; a request that
\* fails before the engine stage has returned a result has no winner.
C30_WinnerOnceEngineStageReturned ==
  /\ []WinnerServedTheDocument
  /\ WinnerAssignedOnce
  /\ NoWinnerWithoutEngineResult

\* C30 witness: the index missed, the live engine served the document and
\* is the winner of the successful request.
C30_Witness ==
  /\ pc = "done"
  /\ response.kind = "success"
  /\ Len(invoked) = 2
  /\ invoked[1] = "index"
  /\ meta.winnerEngine = invoked[2]

\* A prefetch slot that holds a descriptor.
SlotSet(slot) == slot # NoPrefetch

\* C31: a prefetch slot is assigned only while it is empty and is never
\* changed once it holds a descriptor, and at no time do both slots hold
\* one.
C31_PrefetchSlotsWriteOnce ==
  [][/\ meta'.pdfPrefetch # meta.pdfPrefetch => ~SlotSet(meta.pdfPrefetch)
     /\ meta'.documentPrefetch # meta.documentPrefetch =>
          ~SlotSet(meta.documentPrefetch)
     /\ ~(SlotSet(meta'.pdfPrefetch) /\ SlotSet(meta'.documentPrefetch))]_vars

\* C31 witness: the request has ended in success after its transformers
\* with the pdf slot holding the descriptor of a dedicated download and the
\* document slot empty.
C31_Witness ==
  /\ pc = "done"
  /\ response.kind = "success"
  /\ \E i \in DOMAIN stageLog : stageLog[i].stage = "transformers"
  /\ SlotSet(meta.pdfPrefetch)
  /\ meta.pdfPrefetch.source = "download"
  /\ ~SlotSet(meta.documentPrefetch)

\* The task has been started and has not settled.
FrequencyTaskRunning == frequencyTask \in {"selecting", "inserting"}

\* No step of the task changes anything scrapeURL reads or writes.
FrequencyTaskIsolated ==
  [][(frequencyTask # "none" /\ frequencyTask' # frequencyTask) =>
       UNCHANGED scrapeVars]_vars

\* scrapeURL never waits for the task: as long as the request has not
\* ended, a step of the pipeline is possible whatever the task's state,
\* and the request's end leaves the task as it is.
FrequencyTaskNotAwaited ==
  /\ [](pc # "done" => ENABLED Next)
  /\ [][(pc # "done" /\ pc' = "done") =>
          frequencyTask' = frequencyTask]_vars

\* C32: the frequency-recording task runs beside the pipeline: none of its
\* steps, its failure included, changes what scrapeURL reads, writes or
\* returns, and the pipeline goes on and ends without waiting for it.
C32_FrequencyTaskNeverAffectsResult ==
  /\ FrequencyTaskIsolated
  /\ FrequencyTaskNotAwaited

\* C32 witness: a request succeeded after the task had failed and its
\* error had been logged.
C32_Witness ==
  /\ pc = "done"
  /\ response.kind = "success"
  /\ frequencyTask = "logged"

\* The index engine was attempted for the request.
IndexAttempted == \E i \in DOMAIN invoked : invoked[i] = "index"

NoStatusRequestAfterAbort ==
  [][runpod.aborted => runpod'.requests = runpod.requests]_vars

\* The exits of the call that has entered the loop.
PollExit == IF runpod.pc = "left" /\ runpod.entered THEN runpod.exit
            ELSE "none"

\* C34 (as stated): after the cancellation has fired no status request is
\* sent, and the loop is left only with status COMPLETED or FAILED or by
\* the cancellation throw.
C34_PollingStopsOnAbort ==
  /\ NoStatusRequestAfterAbort
  /\ [](PollExit \in {"none", "COMPLETED", "FAILED", "aborted"})
  /\ [](PollExit = "aborted" => runpod.aborted)

\* C34 (amended): as stated, with one more way out of the loop, the error
\* a status request throws.
C34_PollingStopsOnAbortOrError ==
  /\ NoStatusRequestAfterAbort
  /\ [](PollExit \in {"none", "COMPLETED", "FAILED", "aborted", "error"})
  /\ [](PollExit = "aborted" => runpod.aborted)
  /\ [](PollExit \in {"COMPLETED", "FAILED"} => runpod.status = PollExit)

\* C34 witness: one status request found the job in progress, the
\* cancellation fired and the call was left by the throw of a check.
C34_Witness ==
  /\ runpod.pc = "left"
  /\ runpod.exit = "aborted"
  /\ runpod.requests = 1
  /\ runpod.status = "IN_PROGRESS"

\* How often scrapeURLWithEngine was called with the index engine.
IndexInvocations == Len(SelectSeq(invoked, LAMBDA e : e = "index"))

\* C35: in one scrapeURL execution the index engine is invoked at most
\* once and a live engine at most once, and a live engine is invoked only
\* if the index was not attempted or the cache-first attempt threw a miss
\* signal.
C35_NoRetriesNoWaterfall ==
  /\ IndexInvocations <= 1
  /\ Len(LiveInvoked) <= 1
  /\ LiveInvoked # <<>> =>
       \/ ~IndexAttempted
       \/ /\ internalOptions.forceEngine # "index"
          /\ IsMissSignal(indexOutcome)

\* C35 witness: the request has ended after the cache-first attempt missed
\* and the live engine was invoked, each once.
C35_Witness ==
  /\ pc = "done"
  /\ Len(invoked) = 2
  /\ invoked[1] = "index"
  /\ Len(LiveInvoked) = 1
  /\ indexOutcome = "NoCachedDataError"

\* A step of the client, and the one that is a call of httpRequest.
CircuitStep == circuit' # circuit

RequestStep == circuit'.requests = circuit.requests + 1

\* A failure observed in the closed state opens the circuit exactly when
\* it is the third in a row.
OpensAtThreshold ==
  [][(CircuitStep /\ circuit'.last = "failure" /\ circuit.state = "closed")
       => /\ circuit'.failures = circuit.failures + 1
          /\ circuit'.state = "open" <=> circuit'.failures >= 3
          /\ circuit'.state = "open" => circuit'.openedAt = circuit.now]_vars

\* A request made while the circuit is open and fewer than 5000 ms have
\* passed is rejected: nothing is sent, the count and the timestamp stay.
RejectsWhileOpen ==
  [][(/\ CircuitStep
      /\ RequestStep
      /\ circuit.state = "open"
      /\ circuit.now - circuit.openedAt < 5000)
       => /\ circuit'.last = "rejected"
          /\ circuit'.inFlight = circuit.inFlight
          /\ circuit'.failures = circuit.failures
          /\ circuit'.openedAt = circuit.openedAt
          /\ circuit'.state = "open"]_vars

\* C36: the circuit opens when the consecutive failures reach 3, and while
\* it is open and fewer than 5000 ms have passed since it opened every
\* request is rejected without an HTTP call and without a change of the
\* failure count or the open timestamp.
C36_OpensAndRejects ==
  /\ OpensAtThreshold
  /\ RejectsWhileOpen

\* C36 witness: a request has just been rejected 4999 ms after the third
\* failure in a row opened the circuit.
C36_Witness ==
  /\ circuit.last = "rejected"
  /\ circuit.state = "open"
  /\ circuit.failures = 3
  /\ circuit.now - circuit.openedAt = 4999

\* What a response observed in the half-open state does, and a success
\* observed in the open state.
HalfOpenSettles ==
  [][CircuitStep =>
       /\ (circuit'.last = "success" /\ circuit.state = "half-open")
            => circuit'.state = "closed" /\ circuit'.failures = 0
       /\ (circuit'.last = "failure" /\ circuit.state = "half-open")
            => /\ circuit'.state = "open"
               /\ circuit'.openedAt = circuit.now
               /\ CircuitRejects(circuit')
       /\ (circuit'.last = "success" /\ circuit.state = "open")
            => circuit'.state = "open" /\ circuit'.failures = circuit.failures
     ]_vars

\* The request made once the circuit has been in the open state for 5000 ms
\* or more moves it to half-open and is sent.
ProbeAfterOpenFor5000 ==
  [][(/\ CircuitStep
      /\ RequestStep
      /\ circuit.configured
      /\ circuit.state = "open"
      /\ circuit.now - circuit.openSince >= 5000)
       => /\ circuit'.state = "half-open"
          /\ circuit'.last = "sent"
          /\ circuit'.inFlight = circuit.inFlight + 1]_vars

\* The same, the 5000 ms counted from circuitOpenedAt, which a failure
\* observed while the circuit is open sets again.
ProbeAfterTimestamp ==
  [][(/\ CircuitStep
      /\ RequestStep
      /\ circuit.configured
      /\ circuit.state = "open"
      /\ circuit.now - circuit.openedAt >= 5000)
       => /\ circuit'.state = "half-open"
          /\ circuit'.last = "sent"
          /\ circuit'.inFlight = circuit.inFlight + 1]_vars

\* C37 (as stated): once the circuit has been open for at least 5000 ms
\* the next request moves it to half-open and is sent; a success observed
\* in half-open closes it and resets the count, a failure re-opens it and
\* restarts the window, and a success observed while it is open leaves it
\* open.
C37_HalfOpenProbe ==
  /\ ProbeAfterOpenFor5000
  /\ HalfOpenSettles

\* C37 (amended): the 5000 ms are counted from the open timestamp as last
\* set, by the opening or by a later failure observed in the open state.
C37_HalfOpenProbeFromTimestamp ==
  /\ ProbeAfterTimestamp
  /\ HalfOpenSettles

\* C37 witness: 5000 ms after the circuit opened a request was sent in
\* half-open, its failure re-opened the circuit, and the success of the
\* request sent after another 5000 ms has closed it.
C37_Witness ==
  /\ circuit.last = "success"
  /\ circuit.state = "closed"
  /\ circuit.failures = 0
  /\ circuit.now >= 10000
  /\ circuit.openSince >= 5000

\* Whenever the circuit is closed fewer than 3 failures are counted.
ClosedBelowThreshold ==
  circuit.state = "closed" => circuit.failures < 3

\* A success observed in the closed state resets the count.
SuccessResetsClosed ==
  [][(CircuitStep /\ circuit'.last = "success" /\ circuit.state = "closed")
       => circuit'.failures = 0 /\ circuit'.state = "closed"]_vars

\* C38: under every interleaving of the completions of concurrent
\* requests the closed circuit counts fewer than 3 failures, and a success
\* observed in the closed state resets the count to 0.
C38_ClosedInvariant ==
  /\ []ClosedBelowThreshold
  /\ SuccessResetsClosed

\* C38 witness: with two requests awaiting their responses and two
\* failures counted, the first response has just reset the count of the
\* closed circuit while the other request is still out.
C38_Witness ==
  /\ circuit.state = "closed"
  /\ circuit.last = "success"
  /\ circuit.failures = 0
  /\ circuit.inFlight = 1
  /\ circuit.requests >= 4

\* The crawls the checker has rejected during the call.
RejectedCrawls == {Get(job.crawlId) : job \in fdbQueue.rejected}

\* A job the call returns is not of a crawl the checker rejected.
NeverReturnsRejected ==
  fdbQueue.outcome = "job" =>
    /\ Len(fdbQueue.returned) = 1
    /\ \/ ~IsDefined(fdbQueue.returned[1].crawlId)
       \/ Get(fdbQueue.returned[1].crawlId) \notin RejectedCrawls

\* While a pop is awaited every rejected job is back in the queue and the
\* pop's blocked list names every rejected crawl.
RejectedBlockedAtNextPop ==
  fdbQueue.pc = "pop" =>
    /\ fdbQueue.rejected \subseteq fdbQueue.queue
    /\ fdbQueue.rejected \subseteq fdbQueue.pushedBack
    /\ RejectedCrawls = Elements(fdbQueue.sent)

\* null is returned only when the queue holds no job of a non-blocked
\* crawl.
NullWhenNothingLeft ==
  fdbQueue.outcome = "null" =>
    Eligible(fdbQueue.queue, fdbQueue.sent) = {}

\* Every retry posts the previous blocked list with one more crawl.
BlockedListGrows ==
  [][(fdbQueue.pc = "push" /\ fdbQueue'.pc = "pop")
       => /\ Len(fdbQueue'.sent) = Len(fdbQueue.sent) + 1
          /\ SubSeq(fdbQueue'.sent, 1, Len(fdbQueue.sent)) = fdbQueue.sent
          /\ fdbQueue'.sent[Len(fdbQueue'.sent)]
               \notin Elements(fdbQueue.sent)]_vars

\* A call that was made ends.
PopCallEnds == (fdbQueue.pc # "idle") ~> (fdbQueue.pc = "ended")

\* C39: popNextJob with a checker never returns a job of a crawl the
\* checker rejected during the call; when it retries, the rejected job is
\* back in the queue and the blocked list of the pop is the previous one
\* with the rejected crawl added; null is returned only when no job of a
\* non-blocked crawl is left; and the call ends.
C39_RejectedCrawlsStayBlocked ==
  /\ [](NeverReturnsRejected /\ RejectedBlockedAtNextPop
        /\ NullWhenNothingLeft)
  /\ BlockedListGrows
  /\ PopCallEnds

\* C39 witness: the checker rejected a job of each crawl, both were pushed
\* back, and the third pop, with both crawls blocked, returned the job of
\* no crawl.
C39_Witness ==
  /\ fdbQueue.hasChecker
  /\ fdbQueue.pc = "ended"
  /\ fdbQueue.outcome = "job"
  /\ Len(fdbQueue.sent) = 2
  /\ Cardinality(fdbQueue.rejected) = 2
  /\ fdbQueue.rejected \subseteq fdbQueue.queue

\* The same job: id, data, priority, listenable flag, listen channel,
\* crawl id, deadline and team.
SameJob(a, b) ==
  /\ a.id = b.id
  /\ a.data = b.data
  /\ a.priority = b.priority
  /\ a.listenable = b.listenable
  /\ a.listenChannelId = b.listenChannelId
  /\ a.crawlId = b.crawlId
  /\ a.timesOutAt = b.timesOutAt
  /\ a.teamId = b.teamId

\* The popped job is in the caller's hands, back in the queue service, or
\* still held by the call, which is asking the checker or pushing it back.
Conserved(job) ==
  \/ fdbQueue.returned = <<job>>
  \/ \E back \in fdbQueue.pushedBack : SameJob(job, back)
  \/ fdbQueue.result = <<job>> /\ fdbQueue.pc \in {"check", "push"}

\* C40: every job popped during a call of popNextJob is returned to the
\* caller or pushed back to the team's queue unchanged; none is dropped,
\* whichever request fails.
C40_JobConservation ==
  \A job \in fdbQueue.popped : Conserved(job)

==============================================================================
